---- MODULE Spec2Model ----
(***************************************************************************)
(* Model of pvlib's dask task-graph builder, pvlib/mcdask.py.              *)
(*                                                                         *)
(* basic_chain builds a dict `dsk` from node names to dask tasks.  A task  *)
(* is a Python tuple (callable, arg, ...); an argument that is a string    *)
(* equal to a key of the graph is a reference to that node.  Python values *)
(* are modelled as records [k, v]:                                         *)
(*   None           [k |-> "None",  v |-> ""]                              *)
(*   a str          [k |-> "str",   v |-> the string]                      *)
(*   a tuple        [k |-> "tuple", v |-> sequence of values]              *)
(*   a list         [k |-> "list",  v |-> sequence of values]              *)
(*   anything else  [k |-> "obj",   v |-> a label]  (callables, numbers,   *)
(*                  the weather frame, parameter dicts, ...)               *)
(* A parameter dict (module_parameters, inverter_parameters) is modelled   *)
(* by its set of keys, a weather frame by its set of columns.              *)
(***************************************************************************)
EXTENDS Integers, Sequences, FiniteSets, TLC

VARIABLES
    pc,                   \* position of the call in basic_chain
    weather,              \* columns of the weather DataFrame
    module_parameters,    \* keys of module_parameters
    inverter_parameters,  \* keys of inverter_parameters
    aoi_model, spectral_model, dc_model, ac_model, losses_model,
    dsk,                  \* the task graph: node name -> task
    order,                \* insertion order of dsk's keys (a Python dict keeps it)
    warned,               \* messages passed to warnings.warn, in order
    exc,                  \* the exception that left basic_chain, or "none"
    raisedAt,             \* the stage whose statement raised it, or "none"
    inferred,             \* per domain: <<result>> of its infer_*_model call, <<>> if not called
    altitude, pressure,   \* the altitude and pressure arguments of basic_chain
    computed,             \* <<[key, value]>> of the last dask.get(dsk, key), else <<>>
    heap,                 \* the dict objects returned so far: object id -> graph
    returned,             \* per finished call, the id of the dict it returned
    twin,                 \* outcomes of inference on two dicts with the same keys
    call,                 \* the pvsystem / delayed-builder function called, with its arguments
    frame                 \* its local variables and, at the end, its result

vars == <<pc, weather, module_parameters, inverter_parameters,
          aoi_model, spectral_model, dc_model, ac_model, losses_model,
          dsk, order, warned, exc, raisedAt, inferred,
          altitude, pressure, computed, heap, returned, twin, call, frame>>

\* what the steps of basic_chain and of the inference calls leave alone
useVars == <<altitude, pressure, computed, heap, returned, twin, call, frame>>

\* the state of a call outside mcdask.basic_chain
callVars == <<call, frame>>

\* the state of mcdask.basic_chain and of what is done with its graph
chainVars == <<weather, module_parameters, inverter_parameters,
               aoi_model, spectral_model, dc_model, ac_model, losses_model,
               dsk, order, warned, exc, raisedAt, inferred,
               altitude, pressure, computed, heap, returned, twin>>

---------------------------------------------------------------------------
(* Python values *)

None == [k |-> "None", v |-> ""]
Str(s) == [k |-> "str", v |-> s]
Obj(s) == [k |-> "obj", v |-> s]
Tuple(seq) == [k |-> "tuple", v |-> seq]
List(seq) == [k |-> "list", v |-> seq]

isNone(x) == x.k = "None"
isStr(x) == x.k = "str"

\* str.lower() on the model names the callers below pass
Lower(s) ==
    CASE s = "PVWatts" -> "pvwatts"
      [] s = "None" -> "none"
      [] OTHER -> s

\* every string occurring in a value, at any depth
RECURSIVE Strings(_)
Strings(x) ==
    IF x.k = "str" THEN {x.v}
    ELSE IF x.k \in {"tuple", "list"}
         THEN UNION {Strings(x.v[i]) : i \in DOMAIN x.v}
         ELSE {}

\* d[key] = value on a Python dict: a new key goes last, an old one keeps its place
SetItem(d, key, value) == (key :> value) @@ d
SetOrder(o, d, key) == IF key \in DOMAIN d THEN o ELSE Append(o, key)

\* result of a call: a returned value, or the exception it raised
Return(x) == [exc |-> "none", val |-> x, msg |-> ""]
Raise(e, m) == [exc |-> e, val |-> None, msg |-> m]

---------------------------------------------------------------------------
(* model inference: mcdask.infer_*_model *)

\* a variant that tests the SAPM coefficients first
infer_aoi_model_sapm_first(params) ==
    IF {"B5", "B4", "B3", "B2", "B1", "B0"} \subseteq params THEN Return(Str("sapm"))
    ELSE IF {"K", "L", "n"} \subseteq params THEN Return(Str("physical"))
    ELSE IF {"b"} \subseteq params THEN Return(Str("ashrae"))
    ELSE Raise("ValueError", "could not infer AOI model from module_parameters")

infer_aoi_model(params) ==
    IF {"K", "L", "n"} \subseteq params THEN Return(Str("physical"))
    ELSE IF {"B5", "B4", "B3", "B2", "B1", "B0"} \subseteq params
         THEN Return(Str("sapm"))
    ELSE IF {"b"} \subseteq params THEN Return(Str("ashrae"))
    ELSE Raise("ValueError", "could not infer AOI model from module_parameters")

\* a variant that asks for all three first_solar keys
infer_spectral_model_all_keys(params) ==
    IF {"A4", "A3", "A2", "A1", "A0"} \subseteq params THEN Return(Str("sapm"))
    ELSE IF /\ "Technology" \in params
            /\ "Material" \in params
            /\ "first_solar_spectral_coefficients" \in params
         THEN Return(Str("first_solar"))
    ELSE Raise("ValueError", "could not infer spectral model from system.module_parameters")

infer_spectral_model(params) ==
    IF {"A4", "A3", "A2", "A1", "A0"} \subseteq params THEN Return(Str("sapm"))
    ELSE IF \/ "Technology" \in params
            \/ "Material" \in params
            \/ "first_solar_spectral_coefficients" \in params
         THEN Return(Str("first_solar"))
    ELSE Raise("ValueError", "could not infer spectral model from system.module_parameters")

infer_dc_model_swapped(params) ==
    IF {"A0", "A1", "C7"} \subseteq params THEN Return(Str("sapm"))
    ELSE IF {"pdc0", "gamma_pdc"} \subseteq params THEN Return(Str("pvwatts"))
    ELSE IF {"a_ref", "I_L_ref", "I_o_ref", "R_sh_ref", "R_s"} \subseteq params
         THEN Return(Str("singlediode"))
    ELSE Raise("ValueError", "could not infer DC model from module_parameters")

infer_dc_model(params) ==
    IF {"A0", "A1", "C7"} \subseteq params THEN Return(Str("sapm"))
    ELSE IF {"a_ref", "I_L_ref", "I_o_ref", "R_sh_ref", "R_s"} \subseteq params
         THEN Return(Str("singlediode"))
    ELSE IF {"pdc0", "gamma_pdc"} \subseteq params THEN Return(Str("pvwatts"))
    ELSE Raise("ValueError", "could not infer DC model from module_parameters")

\* a variant that tests the module's pdc0 before the ADR coefficients
infer_ac_model_pvwatts_second(module_params, inverter_params) ==
    IF {"C0", "C1", "C2"} \subseteq inverter_params THEN Return(Str("snlinverter"))
    ELSE IF {"pdc0"} \subseteq module_params THEN Return(Str("pvwatts"))
    ELSE IF {"ADRCoefficients"} \subseteq inverter_params
         THEN Return(Str("adrinverter"))
    ELSE Raise("ValueError",
               "could not infer AC model from module_parameters or inverter_parameters")

infer_ac_model(module_params, inverter_params) ==
    IF {"C0", "C1", "C2"} \subseteq inverter_params THEN Return(Str("snlinverter"))
    ELSE IF {"ADRCoefficients"} \subseteq inverter_params
         THEN Return(Str("adrinverter"))
    ELSE IF {"pdc0"} \subseteq module_params THEN Return(Str("pvwatts"))
    ELSE Raise("ValueError",
               "could not infer AC model from module_parameters or inverter_parameters")

---------------------------------------------------------------------------
(* model assignment: mcdask.assign_*_model.  Each returns the node's task  *)
(* (or the exception raised) and, in `infer`, the result of the inference  *)
(* call it made, if it made one.                                           *)

\* the functions and classes that pvsystem.py defines at module level
pvsystem ==
    { "PVSystem", "LocalizedPVSystem", "systemdef", "ashraeiam", "physicaliam",
      "calcparams_desoto", "retrieve_sam", "sapm", "sapm_celltemp", "singlediode",
      "v_from_i", "i_from_v", "snlinverter", "scale_voltage_current_power" }

\* pvsystem.<name>, as the graph builders evaluate it while they build a task
pvsystem_attr(name) ==
    IF name \in pvsystem THEN Return(Obj("pvsystem." \o name))
    ELSE Raise("AttributeError", "module 'pvlib.pvsystem' has no attribute " \o name)

Assigned(r, inf) == [exc |-> r.exc, val |-> r.val, msg |-> r.msg, infer |-> inf]

assign_aoi_model(model_arg, params) ==
    LET inf == IF isNone(model_arg) THEN <<infer_aoi_model(params)>> ELSE <<>>
        m == IF inf # <<>> THEN inf[1].val ELSE model_arg
        model == Lower(m.v)
        r == IF inf # <<>> /\ inf[1].exc # "none" THEN inf[1]
             ELSE IF isStr(m) THEN
                  IF model = "ashrae"
                  THEN Return(Tuple(<<pvsystem_attr("ashraeiam").val, Str("aoi")>>))
                  ELSE IF model = "physical"
                  THEN Raise("NameError", "name 'physicaliam' is not defined")
                  ELSE IF model = "sapm"
                  THEN Return(Tuple(<<pvsystem_attr("sapm").val, Str("aoi"),
                                      Obj("module_parameters")>>))
                  ELSE IF model = "no_loss" THEN Return(Obj("1"))
                  ELSE Raise("ValueError", "not a valid aoi loss model")
             ELSE Return(m)
    IN Assigned(r, inf)

assign_spectral_model(model_arg, params) ==
    LET inf == IF isNone(model_arg) THEN <<infer_spectral_model(params)>> ELSE <<>>
        m == IF inf # <<>> THEN inf[1].val ELSE model_arg
        model == Lower(m.v)
        r == IF inf # <<>> /\ inf[1].exc # "none" THEN inf[1]
             ELSE IF isStr(m) THEN
                  IF model = "first_solar" THEN Raise("NotImplementedError", "")
                  ELSE IF model = "sapm"
                  THEN Return(Tuple(<<pvsystem_attr("sapm").val, Str("airmass_absolute"),
                                      Obj("module_parameters")>>))
                  ELSE IF model = "no_loss" THEN Return(Obj("1"))
                  ELSE Raise("ValueError", "not a valid spectral loss model")
             ELSE Return(m)
    IN Assigned(r, inf)

\* module_parameters[key]
GetItem(params, key) ==
    IF key \in params THEN Return(Obj(key)) ELSE Raise("KeyError", key)

assign_dc_model(model_arg, params) ==
    LET inf == IF isNone(model_arg) THEN <<infer_dc_model(params)>> ELSE <<>>
        m == IF inf # <<>> THEN inf[1].val ELSE model_arg
        model == Lower(m.v)
        r == IF inf # <<>> /\ inf[1].exc # "none" THEN inf[1]
             ELSE IF isStr(m) THEN
                  IF model = "pvwatts" THEN
                      IF pvsystem_attr("pvwatts_dc").exc # "none"
                      THEN pvsystem_attr("pvwatts_dc")
                      ELSE IF GetItem(params, "pdc0").exc # "none"
                      THEN GetItem(params, "pdc0")
                      ELSE IF GetItem(params, "gamma_pdc").exc # "none"
                      THEN GetItem(params, "gamma_pdc")
                      ELSE Return(Tuple(<<pvsystem_attr("pvwatts_dc").val,
                                  Str("effective_irradiance"),
                                  Tuple(<<Obj("getattr"), Str("temps"), Str("temp_cell")>>),
                                  GetItem(params, "pdc0").val,
                                  GetItem(params, "gamma_pdc").val>>))
                  ELSE IF model = "sapm"
                  THEN Return(Tuple(<<pvsystem_attr("sapm").val,
                                  Tuple(<<Obj("truediv"), Str("effective_irradiance"),
                                          Obj("1000")>>),
                                  Tuple(<<Obj("getattr"), Str("temps"), Str("temp_cell")>>),
                                  Obj("module_parameters")>>))
                  \* `elif mode == 'singlediode'`: the name `mode` is unbound
                  ELSE Raise("NameError", "name 'mode' is not defined")
             ELSE Return(m)
    IN Assigned(r, inf)

\* a variant that infers before looking at the argument
assign_ac_model_infer_first(model_arg, params, inverter_params) ==
    LET inf == <<infer_ac_model(params, inverter_params)>>
        m == IF isNone(model_arg) THEN inf[1].val ELSE model_arg
        model == Lower(m.v)
        r == IF inf[1].exc # "none" THEN inf[1]
             ELSE IF isStr(m) THEN
                  IF model = "pvwatts" THEN
                      IF pvsystem_attr("pvwatts_ac").exc # "none"
                      THEN pvsystem_attr("pvwatts_ac")
                      ELSE IF GetItem(params, "pdc0").exc # "none"
                      THEN GetItem(params, "pdc0")
                      ELSE Return(Tuple(<<pvsystem_attr("pvwatts_ac").val, Str("dc"),
                                          GetItem(params, "pdc0").val>>))
                  ELSE IF model = "snlinverter"
                  THEN Return(Tuple(<<pvsystem_attr("snlinverter").val,
                                  Tuple(<<Obj("getattr"), Str("dc"), Str("v_mp")>>),
                                  Tuple(<<Obj("getattr"), Str("dc"), Str("p_mp")>>)>>))
                  ELSE Raise("ValueError", "not a valid AC power model")
             ELSE Return(m)
    IN Assigned(r, inf)

assign_ac_model(model_arg, params, inverter_params) ==
    LET inf == IF isNone(model_arg)
               THEN <<infer_ac_model(params, inverter_params)>> ELSE <<>>
        m == IF inf # <<>> THEN inf[1].val ELSE model_arg
        model == Lower(m.v)
        r == IF inf # <<>> /\ inf[1].exc # "none" THEN inf[1]
             ELSE IF isStr(m) THEN
                  IF model = "pvwatts" THEN
                      IF pvsystem_attr("pvwatts_ac").exc # "none"
                      THEN pvsystem_attr("pvwatts_ac")
                      ELSE IF GetItem(params, "pdc0").exc # "none"
                      THEN GetItem(params, "pdc0")
                      ELSE Return(Tuple(<<pvsystem_attr("pvwatts_ac").val, Str("dc"),
                                          GetItem(params, "pdc0").val>>))
                  ELSE IF model = "snlinverter"
                  THEN Return(Tuple(<<pvsystem_attr("snlinverter").val,
                                  Tuple(<<Obj("getattr"), Str("dc"), Str("v_mp")>>),
                                  Tuple(<<Obj("getattr"), Str("dc"), Str("p_mp")>>)>>))
                  ELSE Raise("ValueError", "not a valid AC power model")
             ELSE Return(m)
    IN Assigned(r, inf)

assign_losses_model(model_arg) ==
    LET m == IF isNone(model_arg) THEN Str("None") ELSE model_arg
        model == Lower(m.v)
        r == IF isStr(m) THEN
                  IF model = "pvwatts"
                  THEN IF pvsystem_attr("pvwatts_losses").exc # "none"
                       THEN pvsystem_attr("pvwatts_losses")
                       ELSE Return(Tuple(<<Obj("truediv"),
                                  Tuple(<<Obj("sub"), Obj("100"),
                                          Tuple(<<pvsystem_attr("pvwatts_losses").val>>)>>),
                                  Obj("100")>>))
                  ELSE IF model = "no_loss" THEN Return(Obj("1"))
                  ELSE Raise("ValueError", "not a valid losses model")
             ELSE Return(m)
    IN Assigned(r, <<>>)

---------------------------------------------------------------------------
(* basic_chain *)

\* keyword defaults of basic_chain that this model keeps fixed
transposition_model == "haydavies"

\* the "look-up functions"
apparent_zenith == Tuple(<<Obj("getattr"), Str("solar_position"), Str("apparent_zenith")>>)
azimuth == Tuple(<<Obj("getattr"), Str("solar_position"), Str("azimuth")>>)
poa_global == Tuple(<<Obj("getattr"), Str("poa_irrad"), Str("poa_global")>>)
poa_direct == Tuple(<<Obj("getattr"), Str("poa_irrad"), Str("poa_direct")>>)
poa_diffuse == Tuple(<<Obj("getattr"), Str("poa_irrad"), Str("poa_diffuse")>>)

\* the node name the "-1" suffix avoids: it is also the column name in the task
WindSpeedNode_unsuffixed == "wind_speed"

\* names of the two value-or-default nodes
WindSpeedNode == "wind_speed-1"
TempAirNode == "temp_air-1"

\* the dict literal of the initial task graph, as <<key, task>> pairs in source order
ScaffoldItems == <<
    <<"times", Obj("weather.index")>>,
    <<WindSpeedNode, Tuple(<<Obj("var_or_default"), Obj("weather"),
                             Str("wind_speed"), Obj("0")>>)>>,
    <<TempAirNode, Tuple(<<Obj("var_or_default"), Obj("weather"),
                           Str("temp_air"), Obj("25")>>)>>,
    <<"pressure,altitude", Tuple(<<Obj("infer_pressure_altitude"),
                                   altitude, pressure>>)>>,
    <<"pressure", Tuple(<<Obj("lambda x: x[0]"), Str("pressure,altitude")>>)>>,
    <<"altitude", Tuple(<<Obj("lambda x: x[1]"), Str("pressure,altitude")>>)>>,
    <<"solar_position", Tuple(<<Obj("partial(get_solarposition)"), Str("times"),
                                Obj("latitude"), Obj("longitude")>>)>>,
    <<"airmass_relative", Tuple(<<Obj("partial(relativeairmass)"), apparent_zenith>>)>>,
    <<"airmass_absolute", Tuple(<<Obj("atmosphere.absoluteairmass"),
                                  Str("airmass_relative"), Str("pressure")>>)>>,
    <<"dni_extra-1", Tuple(<<Obj("irradiance.extraradiation"), Str("times")>>)>>,
    <<"aoi", Tuple(<<Obj("irradiance.aoi"), Obj("surface_tilt"),
                     Obj("surface_azimuth"), apparent_zenith, azimuth>>)>>,
    <<"poa_irrad", Tuple(<<Obj("apply"), Obj("irradiance.total_irrad"),
          List(<<Obj("surface_tilt"), Obj("surface_azimuth"), apparent_zenith, azimuth,
                 Obj("weather[dni]"), Obj("weather[ghi]"), Obj("weather[dhi]")>>),
          Tuple(<<Obj("dict"),
                  List(<<List(<<Str("model"), Str(transposition_model)>>),
                         List(<<Str("dni_extra"), Str("dni_extra-1")>>),
                         List(<<Str("airmass"), Str("airmass_absolute")>>)>>)>>)>>)>>,
    <<"temps", Tuple(<<pvsystem_attr("sapm_celltemp").val, poa_global,
                       Str(WindSpeedNode), Str(TempAirNode)>>)>>,
    <<"effective_irradiance", Tuple(<<Obj("mul"), Str("spectral_modifier"),
          Tuple(<<Obj("add"),
                  Tuple(<<Obj("mul"), poa_direct, Str("aoi_modifier")>>),
                  Tuple(<<Obj("mul"),
                          Tuple(<<Obj("getattr"), Str("module_parameters"),
                                  Str("FD"), Obj("1")>>),
                          poa_diffuse>>)>>)>>)>> >>

\* a variant that loses the first item of the literal
DictOf_skip_first(items, n) ==
    [key \in {items[i][1] : i \in 2..n} |->
        items[CHOOSE i \in 2..n : items[i][1] = key][2]]

\* a dict built from a literal: later duplicates would overwrite, order is first insertion
RECURSIVE DictOf(_, _)
DictOf(items, n) ==
    IF n = 0 THEN <<>>
    ELSE SetItem(DictOf(items, n - 1), items[n][1], items[n][2])

RECURSIVE OrderOf(_, _)
OrderOf(items, n) ==
    IF n = 0 THEN <<>>
    ELSE SetOrder(OrderOf(items, n - 1), DictOf(items, n - 1), items[n][1])

\* a handler that catches the wrong exception class
except_KeyError(e) == e = "KeyError"

\* `except ValueError`
except_ValueError(e) == e = "ValueError"

\* the columns the dict literal reads eagerly: weather['dni'], ['ghi'], ['dhi']
Scaffold ==
    /\ pc = "scaffold"
    /\ IF {"dni", "ghi", "dhi"} \subseteq weather
       THEN /\ dsk' = DictOf(ScaffoldItems, Len(ScaffoldItems))
            /\ order' = OrderOf(ScaffoldItems, Len(ScaffoldItems))
            /\ pc' = "aoi"
            /\ UNCHANGED <<exc, raisedAt>>
       ELSE /\ pc' = "raised"
            /\ exc' = "KeyError"
            /\ raisedAt' = "scaffold"
            /\ UNCHANGED <<dsk, order>>
    /\ UNCHANGED <<weather, module_parameters, inverter_parameters, aoi_model,
                   spectral_model, dc_model, ac_model, losses_model, warned, inferred>>
    /\ UNCHANGED useVars

\* one try/except block of basic_chain: dsk[node] = <assign call r>
TryAssign(stage, node, r, next, registered) ==
    /\ pc = stage
    /\ inferred' = [inferred EXCEPT ![stage] = r.infer]
    /\ IF r.exc = "none"
       THEN /\ dsk' = SetItem(dsk, node, r.val)
            /\ order' = SetOrder(order, dsk, node)
            /\ pc' = next
            /\ UNCHANGED <<warned, exc, raisedAt>>
       ELSE IF except_ValueError(r.exc)
       THEN /\ warned' = warned \o <<r.msg, registered>>
            /\ pc' = next
            /\ UNCHANGED <<dsk, order, exc, raisedAt>>
       ELSE /\ pc' = "raised"
            /\ exc' = r.exc
            /\ raisedAt' = stage
            /\ UNCHANGED <<dsk, order, warned>>
    /\ UNCHANGED <<weather, module_parameters, inverter_parameters, aoi_model,
                   spectral_model, dc_model, ac_model, losses_model>>
    /\ UNCHANGED useVars

AoiStage ==
    TryAssign("aoi", "aoi_modifier", assign_aoi_model(aoi_model, module_parameters),
              "spectral", "no aoi model registered")

SpectralStage ==
    TryAssign("spectral", "spectral_modifier",
              assign_spectral_model(spectral_model, module_parameters),
              "dc", "no spectral model registered")

DcStage ==
    TryAssign("dc", "dc", assign_dc_model(dc_model, module_parameters),
              "ac", "no dc model registered")

AcStage ==
    TryAssign("ac", "ac_no_loss",
              assign_ac_model(ac_model, module_parameters, inverter_parameters),
              "losses", "no ac model registered")

\* the node stored under 'ac' when the losses model resolved
ac_task == Tuple(<<Obj("mul"), Str("ac_no_loss"), Str("losses")>>)

\* try: dsk['ac'] = dsk['ac_no_loss'];  except KeyError: pass
ac_fallback(d) ==
    IF "ac_no_loss" \in DOMAIN d THEN SetItem(d, "ac", d["ac_no_loss"]) ELSE d

LossesStage ==
    LET r == assign_losses_model(losses_model) IN
    /\ pc = "losses"
    /\ IF r.exc = "none"
       THEN /\ dsk' = SetItem(SetItem(dsk, "losses", r.val), "ac", ac_task)
            /\ order' = SetOrder(SetOrder(order, dsk, "losses"),
                                 SetItem(dsk, "losses", r.val), "ac")
            /\ pc' = "done"
            /\ UNCHANGED <<warned, exc, raisedAt>>
       ELSE IF except_ValueError(r.exc)
       THEN /\ warned' = warned \o <<r.msg, "no losses model registered">>
            /\ dsk' = ac_fallback(dsk)
            /\ order' = IF "ac_no_loss" \in DOMAIN dsk
                        THEN SetOrder(order, dsk, "ac") ELSE order
            /\ pc' = "done"
            /\ UNCHANGED <<exc, raisedAt>>
       ELSE /\ pc' = "raised"
            /\ exc' = r.exc
            /\ raisedAt' = "losses"
            /\ UNCHANGED <<dsk, order, warned>>
    /\ UNCHANGED <<weather, module_parameters, inverter_parameters, aoi_model,
                   spectral_model, dc_model, ac_model, losses_model, inferred>>
    /\ UNCHANGED useVars

---------------------------------------------------------------------------
(* the calls explored *)

\* at most this many of the five model arguments differ from their defaults
MaxOverrides == 2

\* key sets of module_parameters: every outcome of each inference, and the overlaps
ModuleKeySets == {
    {},
    {"pdc0", "gamma_pdc"},
    {"pdc0"},
    {"gamma_pdc", "b"},
    {"A0", "A1", "A2", "A3", "A4", "B0", "B1", "B2", "B3", "B4", "B5", "C7"},
    {"A0", "A1", "C7", "pdc0", "gamma_pdc"},
    {"a_ref", "I_L_ref", "I_o_ref", "R_sh_ref", "R_s", "Technology"},
    {"a_ref", "I_L_ref", "I_o_ref", "R_sh_ref", "R_s", "pdc0", "gamma_pdc"},
    {"K", "L", "n", "pdc0", "gamma_pdc"},
    {"b", "FD", "pdc0", "gamma_pdc"},
    {"K", "L", "n", "b", "B0", "B1", "B2", "B3", "B4", "B5"},
    {"A0", "A1", "A2", "A3", "A4", "Material", "pdc0"} }

InverterKeySets == { {}, {"C0", "C1", "C2"}, {"ADRCoefficients"} }

WeatherColumnSets == {
    {"ghi", "dni", "dhi", "temp_air"},
    {"ghi", "dhi", "wind_speed"} }

\* values a caller may pass instead of a model name: a literal, a pre-built task
UserLiteral == Obj("0.95")
UserDcTask == Tuple(<<Obj("user_dc"), Str("effective_irradiance")>>)
UserAcTask == Tuple(<<Obj("mul"), Str("ac"), Obj("0.5")>>)

Names(S) == {Str(s) : s \in S}

AoiModels == {None, UserLiteral}
                 \cup Names({"ashrae", "physical", "sapm", "no_loss", "bogus"})
SpectralModels == {None, UserLiteral}
                      \cup Names({"first_solar", "sapm", "no_loss", "bogus"})
DcModels == {None, UserDcTask} \cup Names({"pvwatts", "sapm", "singlediode", "bogus"})
AcModels == {None, UserAcTask}
                \cup Names({"pvwatts", "snlinverter", "adrinverter", "bogus"})
LossesModels == {None, UserLiteral}
                    \cup Names({"no_loss", "pvwatts", "PVWatts", "bogus"})

\* the defaults of basic_chain's signature
DefaultModel == [aoi |-> None, spectral |-> None, dc |-> None, ac |-> None,
                 losses |-> Str("no_loss")]

Stages == {"aoi", "spectral", "dc", "ac", "losses"}

Overrides(a) == Cardinality({d \in Stages : a[d] # DefaultModel[d]})

Init ==
    /\ pc = "scaffold"
    /\ weather \in WeatherColumnSets
    /\ module_parameters \in ModuleKeySets
    /\ inverter_parameters \in InverterKeySets
    /\ \E a \in [aoi : AoiModels, spectral : SpectralModels, dc : DcModels,
                 ac : AcModels, losses : LossesModels] :
          /\ Overrides(a) <= MaxOverrides
          /\ aoi_model = a.aoi
          /\ spectral_model = a.spectral
          /\ dc_model = a.dc
          /\ ac_model = a.ac
          /\ losses_model = a.losses
    /\ dsk = <<>>
    /\ order = <<>>
    /\ warned = <<>>
    /\ exc = "none"
    /\ raisedAt = "none"
    /\ inferred = [d \in {"aoi", "spectral", "dc", "ac"} |-> <<>>]
    /\ altitude = None
    /\ pressure = None
    /\ computed = <<>>
    /\ heap = <<>>
    /\ returned = <<>>
    /\ twin = <<>>
    /\ call = <<>>
    /\ frame = <<>>

Next ==
    \/ Scaffold
    \/ AoiStage
    \/ SpectralStage
    \/ DcStage
    \/ AcStage
    \/ LossesStage

Spec == Init /\ [][Next]_vars

---------------------------------------------------------------------------
(* vocabulary of the properties *)

\* the names under which basic_chain stores a node
NodeNames ==
    {ScaffoldItems[i][1] : i \in DOMAIN ScaffoldItems}
        \cup {"aoi_modifier", "spectral_modifier", "dc", "ac_no_loss", "losses", "ac"}

\* the node each stage assigns, and the second warning of its except block
Node == [aoi |-> "aoi_modifier", spectral |-> "spectral_modifier", dc |-> "dc",
         ac |-> "ac_no_loss", losses |-> "losses"]
Registered == [aoi |-> "no aoi model registered",
               spectral |-> "no spectral model registered",
               dc |-> "no dc model registered",
               ac |-> "no ac model registered",
               losses |-> "no losses model registered"]

\* the variant names of each domain: those its assign function tests for
\* and those its inference returns
VariantNames == [aoi |-> {"ashrae", "physical", "sapm", "no_loss"},
                 spectral |-> {"first_solar", "sapm", "no_loss"},
                 dc |-> {"pvwatts", "sapm", "singlediode"},
                 ac |-> {"pvwatts", "snlinverter", "adrinverter"},
                 losses |-> {"pvwatts", "no_loss"}]

Arg(d) ==
    CASE d = "aoi" -> aoi_model
      [] d = "spectral" -> spectral_model
      [] d = "dc" -> dc_model
      [] d = "ac" -> ac_model
      [] d = "losses" -> losses_model

StageNo == [scaffold |-> 0, aoi |-> 1, spectral |-> 2, dc |-> 3, ac |-> 4,
            losses |-> 5, done |-> 6]

InChain == pc \in DOMAIN StageNo \cup {"raised"}

\* the statement of stage d has been executed (it may have raised)
Ran(d) ==
    /\ InChain
    /\ IF pc = "raised" THEN StageNo[raisedAt] >= StageNo[d]
       ELSE StageNo[pc] > StageNo[d]

\* stage d was left by an exception that basic_chain did not catch
RaisedIn(d) == pc = "raised" /\ raisedAt = d

Returned == pc = "done"

Warnings == {warned[i] : i \in DOMAIN warned}

\* the nodes of graph g that no node of S refers to are peeled off, repeatedly;
\* what is left lies on or behind a cycle
RECURSIVE Peel(_, _)
Peel(g, S) ==
    LET free == {n \in S : Strings(g[n]) \cap S = {}}
    IN IF free = {} THEN S ELSE Peel(g, S \ free)

Acyclic(g) == Peel(g, DOMAIN g) = {}

OnlyNamedModels == \A d \in Stages : isNone(Arg(d)) \/ isStr(Arg(d))

InvalidName(d) == isStr(Arg(d)) /\ Lower(Arg(d).v) \notin VariantNames[d]

UserValue(d) == ~isNone(Arg(d)) /\ ~isStr(Arg(d))

InferenceFailed(d) ==
    /\ isNone(Arg(d))
    /\ inferred[d] # <<>>
    /\ inferred[d][1].exc # "none"

---------------------------------------------------------------------------
(* properties of basic_chain *)

\* C1: with every model argument None or a name, the reference relation of the
\* graph (A refers to B when B is a key and B's name occurs in A's task at any
\* depth) has no cycle, in the returned graph and in every graph on the way
C1_Acyclic == (InChain /\ OnlyNamedModels) => Acyclic(dsk)

C1_Witness ==
    /\ Returned
    /\ OnlyNamedModels
    /\ {"aoi_modifier", "spectral_modifier", "dc", "ac_no_loss", "losses", "ac"}
           \subseteq DOMAIN dsk
    /\ "dc" \in Strings(dsk["ac_no_loss"])

\* C2: in every returned graph, every node name that occurs in a task is a key
C2_ReferencesResolve ==
    Returned => \A n \in DOMAIN dsk : Strings(dsk[n]) \cap NodeNames \subseteq DOMAIN dsk

\* C3: at every point of the construction, each node was inserted after all the
\* nodes its task names
C3_NoForwardReferences ==
    InChain =>
        \A i \in DOMAIN order :
            Strings(dsk[order[i]]) \cap NodeNames \subseteq {order[j] : j \in 1..(i - 1)}

\* C4: a string that is not a variant name of its domain makes basic_chain fail
\* at that stage with the invalid-name error (a ValueError), returning no graph
C4_InvalidNameIsFatal ==
    \A d \in Stages :
        (Ran(d) /\ InvalidName(d)) => (RaisedIn(d) /\ exc = "ValueError")

C6_OmissionPropagates ==
    Returned =>
        /\ "dc" \notin DOMAIN dsk =>
               ("ac_no_loss" \notin DOMAIN dsk /\ "ac" \notin DOMAIN dsk)
        /\ ("aoi_modifier" \notin DOMAIN dsk \/ "spectral_modifier" \notin DOMAIN dsk)
               => "effective_irradiance" \notin DOMAIN dsk

\* C7: in a returned graph, 'ac' is present only with 'ac_no_loss' and 'losses'
C7_AcNeedsBoth ==
    (Returned /\ "ac" \in DOMAIN dsk) => {"ac_no_loss", "losses"} \subseteq DOMAIN dsk

\* what the AC and the losses assignment do on this call's arguments
AcResult == assign_ac_model(ac_model, module_parameters, inverter_parameters)
LossesResult == assign_losses_model(losses_model)

\* C8: once the AC stage has run, if exactly one of the AC model and the losses
\* model resolved, neither stage makes basic_chain fail; whenever the AC model
\* resolved its task stays in the graph under 'ac_no_loss', and a returned graph
\* holds 'losses' whenever the losses model resolved
C8_PartialResultReturned ==
    Ran("ac") =>
        /\ ((AcResult.exc = "none") # (LossesResult.exc = "none"))
               => (~RaisedIn("ac") /\ ~RaisedIn("losses"))
        /\ AcResult.exc = "none" =>
               ("ac_no_loss" \in DOMAIN dsk /\ dsk["ac_no_loss"] = AcResult.val)
        /\ (Returned /\ LossesResult.exc = "none") =>
               ("losses" \in DOMAIN dsk /\ dsk["losses"] = LossesResult.val)

\* C9: a model argument that is neither None nor a string becomes its domain's
\* node as it is; that domain's inference is not called, and the stage neither
\* warns nor raises, whatever the parameter keys
C9_UserValueVerbatim ==
    \A d \in Stages :
        (Ran(d) /\ UserValue(d)) =>
            /\ ~RaisedIn(d)
            /\ Node[d] \in DOMAIN dsk
            /\ dsk[Node[d]] = Arg(d)
            /\ d # "losses" => inferred[d] = <<>>
            /\ Registered[d] \notin Warnings

C9_Witness ==
    /\ Returned
    /\ dc_model = UserDcTask
    /\ ac_model = UserAcTask
    /\ infer_dc_model(module_parameters).exc # "none"
    /\ infer_ac_model(module_parameters, inverter_parameters).exc # "none"
    /\ dsk["dc"] = UserDcTask
    /\ dsk["ac_no_loss"] = UserAcTask

\* the keys the AOI and the spectral inference rules look for
AoiKeys == {"K", "L", "n", "B0", "B1", "B2", "B3", "B4", "B5", "b"}
SpectralKeys == {"A0", "A1", "A2", "A3", "A4", "Technology", "Material",
                 "first_solar_spectral_coefficients"}

ScaffoldNodes == {"times", WindSpeedNode, TempAirNode, "pressure", "altitude",
                  "solar_position", "airmass_relative", "airmass_absolute",
                  "dni_extra-1", "aoi", "poa_irrad", "temps"}

\* C15: every returned graph holds the scaffold nodes; when module_parameters
\* has no AOI and no spectral key and aoi_model and spectral_model are None,
\* the returned graph has neither 'aoi_modifier' nor 'spectral_modifier' and
\* has 'solar_position' and 'poa_irrad'
C15_ScaffoldAlwaysPresent ==
    Returned =>
        /\ ScaffoldNodes \subseteq DOMAIN dsk
        /\ ( /\ module_parameters \cap (AoiKeys \cup SpectralKeys) = {}
             /\ isNone(aoi_model)
             /\ isNone(spectral_model) )
               => /\ "aoi_modifier" \notin DOMAIN dsk
                  /\ "spectral_modifier" \notin DOMAIN dsk
                  /\ {"solar_position", "poa_irrad"} \subseteq DOMAIN dsk

C15_Witness ==
    /\ Returned
    /\ module_parameters = {"pdc0", "gamma_pdc"}
    /\ isNone(aoi_model)
    /\ isNone(spectral_model)
    /\ "aoi_modifier" \notin DOMAIN dsk
    /\ "dc" \in DOMAIN dsk
    /\ "poa_irrad" \in DOMAIN dsk

\* what the DC assignment does on this call's arguments
DcResult == assign_dc_model(dc_model, module_parameters)

\* C16: when the weather has its irradiance columns and the DC, the AC and the
\* losses model all resolve, basic_chain returns a graph that holds
\* solar_position, poa_irrad, temps, effective_irradiance, dc, ac_no_loss,
\* losses and ac, with ac the product of ac_no_loss and losses
C16_FullChainReturned ==
    ( /\ pc \in {"done", "raised"}
      /\ {"dni", "ghi", "dhi"} \subseteq weather
      /\ DcResult.exc = "none"
      /\ AcResult.exc = "none"
      /\ LossesResult.exc = "none" )
        => /\ Returned
           /\ {"solar_position", "poa_irrad", "temps", "effective_irradiance",
               "dc", "ac_no_loss", "losses", "ac"} \subseteq DOMAIN dsk
           /\ dsk["ac"] = ac_task

\* the positional parameters of the operations that the variant nodes call
\* (pvsystem.py: def ashraeiam, def sapm, def snlinverter)
Parameters ==
    ("pvsystem.ashraeiam" :> <<"b", "aoi">>)
    @@ ("pvsystem.sapm" :> <<"module", "poa_direct", "poa_diffuse", "temp_cell",
                             "airmass_absolute", "aoi">>)
    @@ ("pvsystem.snlinverter" :> <<"inverter", "v_dc", "p_dc">>)

\* the parameter that an argument of a variant node carries
Carries(a) ==
    CASE a = Str("aoi") -> "aoi"
      [] a = Str("airmass_absolute") -> "airmass_absolute"
      [] a = Obj("module_parameters") -> "module"
      [] a = Obj("inverter_parameters") -> "inverter"
      [] a = Tuple(<<Obj("getattr"), Str("temps"), Str("temp_cell")>>) -> "temp_cell"
      [] a = Tuple(<<Obj("getattr"), Str("dc"), Str("v_mp")>>) -> "v_dc"
      [] a = Tuple(<<Obj("getattr"), Str("dc"), Str("p_mp")>>) -> "p_dc"
      [] OTHER -> "other"

\* the variant nodes of the graph whose task calls one of these operations
VariantNodes ==
    {n \in {"aoi_modifier", "spectral_modifier", "dc", "ac_no_loss"} \cap DOMAIN dsk :
        /\ dsk[n].k = "tuple"
        /\ dsk[n].v[1].k = "obj"
        /\ dsk[n].v[1].v \in DOMAIN Parameters}

\* C28: every variant node that calls ashraeiam, sapm or snlinverter supplies
\* one argument per positional parameter of the operation, in the parameter
\* order; the snlinverter node so receives the inverter parameters first
C28_NodesMatchSignatures ==
    \A n \in VariantNodes :
        LET task == dsk[n].v
            supplied == [i \in 1..(Len(task) - 1) |-> Carries(task[i + 1])]
        IN supplied = Parameters[task[1].v]

---------------------------------------------------------------------------
(* the inference functions on their own: each is applied to key sets drawn *)
(* from unions of the chunks below, which split every rule's key set       *)

\* a key set holds at most this many chunks
MaxKeyChunks == 4

ModuleKeyChunks == {
    {"A0", "A1"}, {"C7"}, {"A2", "A3", "A4"},
    {"a_ref", "I_L_ref", "I_o_ref", "R_sh_ref"}, {"R_s"},
    {"pdc0"}, {"gamma_pdc"},
    {"K", "L"}, {"n"},
    {"B0", "B1", "B2", "B3", "B4"}, {"B5"},
    {"b"},
    {"Technology"}, {"Material"}, {"first_solar_spectral_coefficients"} }

InverterKeyChunks == { {"C0", "C1"}, {"C2"}, {"ADRCoefficients"} }

ChunkUnions(chunks) ==
    {UNION cs : cs \in {c \in SUBSET chunks : Cardinality(c) <= MaxKeyChunks}}

InferInit ==
    /\ pc = "infer_aoi"
    /\ module_parameters \in ChunkUnions(ModuleKeyChunks)
    /\ inverter_parameters \in ChunkUnions(InverterKeyChunks)
    /\ weather = {}
    /\ aoi_model = None
    /\ spectral_model = None
    /\ dc_model = None
    /\ ac_model = None
    /\ losses_model = None
    /\ dsk = <<>>
    /\ order = <<>>
    /\ warned = <<>>
    /\ exc = "none"
    /\ raisedAt = "none"
    /\ inferred = [d \in {"aoi", "spectral", "dc", "ac"} |-> <<>>]
    /\ altitude = None
    /\ pressure = None
    /\ computed = <<>>
    /\ heap = <<>>
    /\ returned = <<>>
    /\ twin = <<>>
    /\ call = <<>>
    /\ frame = <<>>

\* one call of an inference function, its result kept in `inferred`
InferCall(at, d, r, next) ==
    /\ pc = at
    /\ inferred' = [inferred EXCEPT ![d] = <<r>>]
    /\ pc' = next
    /\ UNCHANGED <<weather, module_parameters, inverter_parameters, aoi_model,
                   spectral_model, dc_model, ac_model, losses_model, dsk, order,
                   warned, exc, raisedAt>>
    /\ UNCHANGED useVars

InferAoi == InferCall("infer_aoi", "aoi", infer_aoi_model(module_parameters),
                      "infer_spectral")
InferSpectral == InferCall("infer_spectral", "spectral",
                           infer_spectral_model(module_parameters), "infer_dc")
InferDc == InferCall("infer_dc", "dc", infer_dc_model(module_parameters), "infer_ac")
InferAc == InferCall("infer_ac", "ac",
                     infer_ac_model(module_parameters, inverter_parameters),
                     "infer_done")

\* the outcome of an inference call: the variant name, or "fail" for its ValueError
Outcome(r) ==
    IF r.exc = "none" THEN r.val.v
    ELSE IF r.exc = "ValueError" THEN "fail" ELSE r.exc

\* a variant that drops the keys whose value is 0
keys_nonzero(d) == {key \in DOMAIN d : d[key] # 0}

\* params = set(module_parameters.keys())
keys(d) == DOMAIN d

\* the four inference functions on a module dict and an inverter dict
InferAll(module_dict, inverter_dict) ==
    [aoi |-> Outcome(infer_aoi_model(keys(module_dict))),
     spectral |-> Outcome(infer_spectral_model(keys(module_dict))),
     dc |-> Outcome(infer_dc_model(keys(module_dict))),
     ac |-> Outcome(infer_ac_model(keys(module_dict), keys(inverter_dict)))]

\* the same calls on two pairs of dicts that have the keys of module_parameters
\* and inverter_parameters and differ in the value stored under one key
InferTwin ==
    /\ pc = "infer_done"
    /\ \E changed \in module_parameters \cup inverter_parameters :
          LET m1 == [key \in module_parameters |-> 1]
              i1 == [key \in inverter_parameters |-> 1]
              m2 == [key \in module_parameters |-> IF key = changed THEN 0 ELSE 1]
              i2 == [key \in inverter_parameters |-> IF key = changed THEN 0 ELSE 1]
          IN twin' = <<[changed |-> changed,
                        first |-> InferAll(m1, i1),
                        second |-> InferAll(m2, i2)]>>
    /\ pc' = "twin_done"
    /\ UNCHANGED <<weather, module_parameters, inverter_parameters, aoi_model,
                   spectral_model, dc_model, ac_model, losses_model, dsk, order,
                   warned, exc, raisedAt, inferred, altitude, pressure, computed,
                   heap, returned>>
    /\ UNCHANGED callVars

InferNext ==
    \/ InferAoi
    \/ InferSpectral
    \/ InferDc
    \/ InferAc
    \/ InferTwin

InferSpec == InferInit /\ [][InferNext]_vars

\* C10: infer_dc_model gives 'sapm' when {A0,A1,C7} are keys; otherwise
\* 'singlediode' when {a_ref,I_L_ref,I_o_ref,R_sh_ref,R_s} are; otherwise
\* 'pvwatts' when {pdc0,gamma_pdc} are; otherwise it fails
C10_DcPriority ==
    inferred["dc"] # <<>> =>
        LET has(S) == \A key \in S : key \in module_parameters
            s1 == has({"A0", "A1", "C7"})
            s2 == has({"a_ref", "I_L_ref", "I_o_ref", "R_sh_ref", "R_s"})
            s3 == has({"pdc0", "gamma_pdc"})
            got == Outcome(inferred["dc"][1])
        IN /\ s1 => got = "sapm"
           /\ (~s1 /\ s2) => got = "singlediode"
           /\ (~s1 /\ ~s2 /\ s3) => got = "pvwatts"
           /\ (~s1 /\ ~s2 /\ ~s3) => got = "fail"

C10_Witness ==
    /\ inferred["dc"] # <<>>
    /\ Outcome(inferred["dc"][1]) = "pvwatts"
    /\ {"pdc0", "gamma_pdc", "A0", "A1", "R_s"} \subseteq module_parameters

\* C11: infer_ac_model gives 'snlinverter' when {C0,C1,C2} are inverter keys,
\* whatever the module keys; otherwise 'adrinverter' when ADRCoefficients is an
\* inverter key; otherwise 'pvwatts' when pdc0 is a module key; otherwise it fails
C11_AcPriority ==
    inferred["ac"] # <<>> =>
        LET s1 == \A key \in {"C0", "C1", "C2"} : key \in inverter_parameters
            s2 == "ADRCoefficients" \in inverter_parameters
            s3 == "pdc0" \in module_parameters
            got == Outcome(inferred["ac"][1])
        IN /\ s1 => got = "snlinverter"
           /\ (~s1 /\ s2) => got = "adrinverter"
           /\ (~s1 /\ ~s2 /\ s3) => got = "pvwatts"
           /\ (~s1 /\ ~s2 /\ ~s3) => got = "fail"

C11_Witness ==
    /\ inferred["ac"] # <<>>
    /\ Outcome(inferred["ac"][1]) = "adrinverter"
    /\ {"ADRCoefficients", "C0", "C1"} \subseteq inverter_parameters
    /\ "pdc0" \in module_parameters

\* C12: infer_aoi_model gives 'physical' when {K,L,n} are keys; otherwise 'sapm'
\* when {B0,...,B5} are; otherwise 'ashrae' when b is a key; otherwise it fails
C12_AoiPriority ==
    inferred["aoi"] # <<>> =>
        LET has(S) == \A key \in S : key \in module_parameters
            s1 == has({"K", "L", "n"})
            s2 == has({"B0", "B1", "B2", "B3", "B4", "B5"})
            s3 == "b" \in module_parameters
            got == Outcome(inferred["aoi"][1])
        IN /\ s1 => got = "physical"
           /\ (~s1 /\ s2) => got = "sapm"
           /\ (~s1 /\ ~s2 /\ s3) => got = "ashrae"
           /\ (~s1 /\ ~s2 /\ ~s3) => got = "fail"

C12_Witness ==
    /\ inferred["aoi"] # <<>>
    /\ Outcome(inferred["aoi"][1]) = "physical"
    /\ {"K", "L", "n", "B0", "B1", "B2", "B3", "B4", "B5"} \subseteq module_parameters

\* C13: infer_spectral_model gives 'sapm' when {A0,...,A4} are keys; otherwise
\* 'first_solar' when at least one of Technology, Material and
\* first_solar_spectral_coefficients is a key; otherwise it fails
C13_SpectralPriority ==
    inferred["spectral"] # <<>> =>
        LET s1 == \A key \in {"A0", "A1", "A2", "A3", "A4"} : key \in module_parameters
            s2 == \E key \in {"Technology", "Material",
                              "first_solar_spectral_coefficients"} :
                      key \in module_parameters
            got == Outcome(inferred["spectral"][1])
        IN /\ s1 => got = "sapm"
           /\ (~s1 /\ s2) => got = "first_solar"
           /\ (~s1 /\ ~s2) => got = "fail"

C13_Witness ==
    /\ inferred["spectral"] # <<>>
    /\ Outcome(inferred["spectral"][1]) = "first_solar"
    /\ {"Material", "A0", "A1"} \subseteq module_parameters
    /\ "Technology" \notin module_parameters

\* C14: inference reads key sets only: on two module dicts and two inverter
\* dicts that have the same keys and differ in a value, each of the four
\* inference functions has the same outcome (same variant name, or failure twice)
C14_KeysOnly == twin # <<>> => twin[1].first = twin[1].second

C14_Witness ==
    /\ twin # <<>>
    /\ twin[1].changed = "pdc0"
    /\ twin[1].first.dc = "pvwatts"
    /\ twin[1].first.ac = "pvwatts"

\* the assign function of a domain, called with a variant name
AssignNamed(d, name) ==
    CASE d = "aoi" -> assign_aoi_model(name, module_parameters)
      [] d = "spectral" -> assign_spectral_model(name, module_parameters)
      [] d = "dc" -> assign_dc_model(name, module_parameters)
      [] d = "ac" -> assign_ac_model(name, module_parameters, inverter_parameters)

\* C27: in every domain, the variant name that the inference function returned
\* is accepted by the domain's assign function, which returns a node for it
\* and raises nothing
C27_InferredNamesAssigned ==
    \A d \in {"aoi", "spectral", "dc", "ac"} :
        (inferred[d] # <<>> /\ inferred[d][1].exc = "none") =>
            AssignNamed(d, inferred[d][1].val).exc = "none"

---------------------------------------------------------------------------
(* evaluation of a node of the returned graph, with the functions of       *)
(* mcdask.py computed and every other function kept as a symbolic call     *)

\* the result of a call that is kept symbolic, and of an attribute look-up
App(f, args) == [k |-> "app", v |-> <<f>> \o args]
Attr(obj, name) == [k |-> "attr", v |-> <<obj, name>>]

\* a variant that never finds the column
var_or_default_never(w, var, default) ==
    [k |-> "pd.Series", v |-> <<default, Obj("weather.index")>>]

\* var_or_default: weather[var] when var is a column, else a constant series
\* of `default` on weather.index
var_or_default(w, var, default) ==
    IF var.v \in weather
    THEN [k |-> "getitem", v |-> <<w, var>>]
    ELSE [k |-> "pd.Series", v |-> <<default, Obj("weather.index")>>]

\* infer_pressure_altitude: returns the pair altitude, pressure
infer_pressure_altitude(alt, pres) ==
    IF isNone(alt) /\ isNone(pres) THEN Tuple(<<Obj("0."), Obj("101325.")>>)
    ELSE IF isNone(alt) THEN Tuple(<<App(Obj("atmosphere.pres2alt"), <<pres>>), pres>>)
    ELSE IF isNone(pres) THEN Tuple(<<alt, App(Obj("atmosphere.alt2pres"), <<alt>>)>>)
    ELSE Tuple(<<alt, pres>>)

\* the call f(*args) of a task whose arguments have been evaluated
Call(f, args) ==
    CASE f = Obj("getattr") ->
             IF args[1].k = "str"
             THEN IF Len(args) = 3 THEN args[3]
                  ELSE [k |-> "error", v |-> <<Str("AttributeError")>>]
             ELSE Attr(args[1], args[2])
      [] f = Obj("lambda x: x[0]") -> args[1].v[1]
      [] f = Obj("lambda x: x[1]") -> args[1].v[2]
      [] f = Obj("infer_pressure_altitude") -> infer_pressure_altitude(args[1], args[2])
      [] f = Obj("var_or_default") -> var_or_default(args[1], args[2], args[3])
      [] OTHER -> App(f, args)

\* the evaluator's rule for a task t of graph g: a string that is a key stands
\* for that node's value, a list is evaluated element by element, a tuple headed
\* by a function is a call, anything else is a literal; `seen` holds the nodes
\* under evaluation
RECURSIVE Eval(_, _, _)
Eval(t, g, seen) ==
    CASE t.k = "str" ->
             IF t.v \notin DOMAIN g THEN t
             ELSE IF t.v \in seen THEN [k |-> "error", v |-> <<Str("cycle")>>]
             ELSE Eval(g[t.v], g, seen \cup {t.v})
      [] t.k = "list" -> List([i \in DOMAIN t.v |-> Eval(t.v[i], g, seen)])
      [] t.k = "tuple" ->
             IF Len(t.v) > 0 /\ t.v[1].k = "obj"
             THEN Call(t.v[1], [i \in 1..(Len(t.v) - 1) |-> Eval(t.v[i + 1], g, seen)])
             ELSE t
      [] OTHER -> t

\* the nodes whose value is asked for
GetKeys == {"effective_irradiance", "pressure", "altitude", WindSpeedNode,
            TempAirNode, "temps"}

\* get(dsk, key) on the returned graph
Get ==
    /\ pc = "done"
    /\ \E key \in GetKeys \cap DOMAIN dsk :
          computed' = <<[key |-> key, value |-> Eval(Str(key), dsk, {})]>>
    /\ pc' = "got"
    /\ UNCHANGED <<weather, module_parameters, inverter_parameters, aoi_model,
                   spectral_model, dc_model, ac_model, losses_model, dsk, order,
                   warned, exc, raisedAt, inferred, altitude, pressure, heap,
                   returned, twin>>
    /\ UNCHANGED callVars

\* weather frames with the irradiance columns and any of the two optional ones
EvalWeatherColumnSets ==
    {{"ghi", "dni", "dhi"} \cup opt : opt \in SUBSET {"temp_air", "wind_speed"}}

\* model arguments: all defaults, or named modifiers and losses
EvalModelArgs == {
    DefaultModel,
    [aoi |-> Str("no_loss"), spectral |-> Str("no_loss"), dc |-> None, ac |-> None,
     losses |-> Str("no_loss")],
    [aoi |-> None, spectral |-> Str("no_loss"), dc |-> Str("sapm"), ac |-> None,
     losses |-> Str("no_loss")] }

EvalInit ==
    /\ pc = "scaffold"
    /\ weather \in EvalWeatherColumnSets \cup WeatherColumnSets
    /\ module_parameters \in ModuleKeySets
    /\ inverter_parameters \in InverterKeySets
    /\ \E a \in EvalModelArgs :
          /\ aoi_model = a.aoi
          /\ spectral_model = a.spectral
          /\ dc_model = a.dc
          /\ ac_model = a.ac
          /\ losses_model = a.losses
    /\ dsk = <<>>
    /\ order = <<>>
    /\ warned = <<>>
    /\ exc = "none"
    /\ raisedAt = "none"
    /\ inferred = [d \in {"aoi", "spectral", "dc", "ac"} |-> <<>>]
    /\ altitude \in {None, Obj("1200.")}
    /\ pressure \in {None, Obj("88000.")}
    /\ computed = <<>>
    /\ heap = <<>>
    /\ returned = <<>>
    /\ twin = <<>>
    /\ call = <<>>
    /\ frame = <<>>

EvalNext ==
    \/ Scaffold
    \/ AoiStage
    \/ SpectralStage
    \/ DcStage
    \/ AcStage
    \/ LossesStage
    \/ Get

EvalSpec == EvalInit /\ [][EvalNext]_vars

\* the value computed for node n, when that is the node asked for
Got(n) == computed # <<>> /\ computed[1].key = n
Value == computed[1].value

\* the value of node n of the current graph
NodeValue(n) == Eval(Str(n), dsk, {})

\* the node names that occur in the task of node n
Refs(n) == Strings(dsk[n]) \cap DOMAIN dsk

\* C17: with both modifier nodes in the graph, 'effective_irradiance' evaluates
\* to spectral_modifier * (poa_direct * aoi_modifier + FD * poa_diffuse), FD
\* being module_parameters['FD'] when FD is a key and 1 otherwise
C17_EffectiveIrradiance ==
    (Got("effective_irradiance")
       /\ {"aoi_modifier", "spectral_modifier"} \subseteq DOMAIN dsk) =>
        LET FD == IF "FD" \in module_parameters
                  THEN [k |-> "getitem", v |-> <<Obj("module_parameters"), Str("FD")>>]
                  ELSE Obj("1")
            direct == Attr(NodeValue("poa_irrad"), Str("poa_direct"))
            diffuse == Attr(NodeValue("poa_irrad"), Str("poa_diffuse"))
        IN Value = App(Obj("mul"),
                       <<NodeValue("spectral_modifier"),
                         App(Obj("add"),
                             <<App(Obj("mul"), <<direct, NodeValue("aoi_modifier")>>),
                               App(Obj("mul"), <<FD, diffuse>>)>>)>>)

\* the pressure and the altitude of the site, from the two arguments
SitePressure ==
    IF ~isNone(pressure) THEN pressure
    ELSE IF isNone(altitude) THEN Obj("101325.")
    ELSE App(Obj("atmosphere.alt2pres"), <<altitude>>)
SiteAltitude ==
    IF ~isNone(altitude) THEN altitude
    ELSE IF isNone(pressure) THEN Obj("0.")
    ELSE App(Obj("atmosphere.pres2alt"), <<pressure>>)

\* C18: node 'pressure' evaluates to the site's pressure and node 'altitude' to
\* its altitude: the argument when given, else derived from the other argument,
\* else 101325 and 0
C18_PressureAltitude ==
    /\ Got("pressure") => Value = SitePressure
    /\ Got("altitude") => Value = SiteAltitude

\* a weather column, and a constant series on the weather index
Column(name) == [k |-> "getitem", v |-> <<Obj("weather"), Str(name)>>]
ConstantSeries(c) == [k |-> "pd.Series", v |-> <<Obj(c), Obj("weather.index")>>]

ValueOrDefaultNodes ==
    /\ Got(WindSpeedNode) =>
           Value = IF "wind_speed" \in weather THEN Column("wind_speed")
                   ELSE ConstantSeries("0")
    /\ Got(TempAirNode) =>
           Value = IF "temp_air" \in weather THEN Column("temp_air")
                   ELSE ConstantSeries("25")
    /\ pc \in {"done", "got"} => (Refs(WindSpeedNode) = {} /\ Refs(TempAirNode) = {})

\* C19 as stated: 'wind_speed-1' and 'temp_air-1' evaluate to the weather column
\* or to the constant series 0 / 25 and refer to no node, and 'temps' reads
\* these two nodes only
C19_TempsReadsOnlyDefaults ==
    /\ ValueOrDefaultNodes
    /\ pc \in {"done", "got"} => Refs("temps") = {WindSpeedNode, TempAirNode}

\* C19 amended: 'wind_speed-1' and 'temp_air-1' evaluate to the weather column
\* or to the constant series 0 / 25 and refer to no node, and 'temps' reads
\* these two nodes and 'poa_irrad', and no other node
C19_ValueOrDefault ==
    /\ ValueOrDefaultNodes
    /\ pc \in {"done", "got"} => Refs("temps") = {WindSpeedNode, TempAirNode, "poa_irrad"}

C19_Witness ==
    /\ Got(TempAirNode)
    /\ "temp_air" \notin weather
    /\ "wind_speed" \in weather
    /\ Value = ConstantSeries("25")

---------------------------------------------------------------------------
(* several calls of basic_chain in one program: each returned graph is an  *)
(* object of the heap, which the caller may go on to change                *)

\* the program makes at most this many calls that return a graph
MaxCalls == 2

\* a variant in which every call hands out the same dict object
NewObject_shared(h) == 1

\* `dsk = {...}`: the dict display makes a new object on every execution
NewObject(h) == Len(h) + 1

\* `return dsk`: the caller receives the dict object this call made
ReturnGraph ==
    /\ pc = "done"
    /\ LET id == NewObject(heap)
       IN /\ heap' = [i \in (DOMAIN heap) \cup {id} |-> IF i = id THEN dsk ELSE heap[i]]
          /\ returned' = Append(returned, id)
    /\ pc' = "returned"
    /\ UNCHANGED <<weather, module_parameters, inverter_parameters, aoi_model,
                   spectral_model, dc_model, ac_model, losses_model, dsk, order,
                   warned, exc, raisedAt, inferred, altitude, pressure, computed,
                   twin>>
    /\ UNCHANGED callVars

CallsWeatherColumnSets == {{"ghi", "dni", "dhi", "temp_air"}, {"ghi", "dhi"}}
CallsModuleKeySets == {{"pdc0", "gamma_pdc"}, {"b", "FD", "pdc0", "gamma_pdc"}}
CallsModelArgs == {
    DefaultModel,
    [aoi |-> Str("no_loss"), spectral |-> Str("no_loss"), dc |-> Str("sapm"),
     ac |-> Str("snlinverter"), losses |-> Str("no_loss")] }

\* the caller's next call, after a call that returned or raised
NewCall ==
    /\ pc \in {"returned", "raised"}
    /\ Len(returned) < MaxCalls
    /\ \E w \in CallsWeatherColumnSets, m \in CallsModuleKeySets, a \in CallsModelArgs :
          /\ weather' = w
          /\ module_parameters' = m
          /\ aoi_model' = a.aoi
          /\ spectral_model' = a.spectral
          /\ dc_model' = a.dc
          /\ ac_model' = a.ac
          /\ losses_model' = a.losses
    /\ pc' = "scaffold"
    /\ dsk' = <<>>
    /\ order' = <<>>
    /\ warned' = <<>>
    /\ exc' = "none"
    /\ raisedAt' = "none"
    /\ inferred' = [d \in {"aoi", "spectral", "dc", "ac"} |-> <<>>]
    /\ UNCHANGED <<inverter_parameters, altitude, pressure, computed, heap,
                   returned, twin>>
    /\ UNCHANGED callVars

\* the caller adds a node to a graph it was given, or deletes one
Mutate ==
    /\ pc = "returned"
    /\ \E i \in DOMAIN returned :
          LET g == heap[returned[i]]
          IN \/ heap' = [heap EXCEPT ![returned[i]] = SetItem(g, "extra", Obj("0"))]
             \/ /\ "times" \in DOMAIN g
                /\ heap' = [heap EXCEPT ![returned[i]] =
                                [n \in DOMAIN g \ {"times"} |-> g[n]]]
    /\ UNCHANGED <<pc, weather, module_parameters, inverter_parameters, aoi_model,
                   spectral_model, dc_model, ac_model, losses_model, dsk, order,
                   warned, exc, raisedAt, inferred, altitude, pressure, computed,
                   returned, twin>>
    /\ UNCHANGED callVars

CallsInit ==
    /\ pc = "scaffold"
    /\ weather \in CallsWeatherColumnSets
    /\ module_parameters \in CallsModuleKeySets
    /\ inverter_parameters = {}
    /\ \E a \in CallsModelArgs :
          /\ aoi_model = a.aoi
          /\ spectral_model = a.spectral
          /\ dc_model = a.dc
          /\ ac_model = a.ac
          /\ losses_model = a.losses
    /\ dsk = <<>>
    /\ order = <<>>
    /\ warned = <<>>
    /\ exc = "none"
    /\ raisedAt = "none"
    /\ inferred = [d \in {"aoi", "spectral", "dc", "ac"} |-> <<>>]
    /\ altitude = None
    /\ pressure = None
    /\ computed = <<>>
    /\ heap = <<>>
    /\ returned = <<>>
    /\ twin = <<>>
    /\ call = <<>>
    /\ frame = <<>>

CallsNext ==
    \/ Scaffold
    \/ AoiStage
    \/ SpectralStage
    \/ DcStage
    \/ AcStage
    \/ LossesStage
    \/ ReturnGraph
    \/ NewCall
    \/ Mutate

CallsSpec == CallsInit /\ [][CallsNext]_vars

\* the graph the caller holds from its i-th returning call
GraphOf(i) == heap[returned[i]]

\* C20: no step of a call changes its weather, module_parameters or
\* inverter_parameters argument; a call changes no graph returned before, and a
\* change the caller makes to one returned graph changes no other returned graph
C20_FreshGraphPerCall ==
    [][ /\ ~(pc \in {"returned", "raised"} /\ pc' = "scaffold") =>
               UNCHANGED <<weather, module_parameters, inverter_parameters>>
        /\ ~(pc = "returned" /\ pc' = "returned") =>
               \A j \in DOMAIN returned : heap'[returned[j]] = heap[returned[j]]
        /\ \A i, j \in DOMAIN returned :
               (i # j /\ heap'[returned[i]] # heap[returned[i]])
                   => heap'[returned[j]] = heap[returned[j]] ]_vars

C20_Witness ==
    /\ Len(returned) = 2
    /\ "extra" \in DOMAIN GraphOf(1)
    /\ "extra" \notin DOMAIN GraphOf(2)
    /\ "times" \in DOMAIN GraphOf(1)
    /\ "times" \notin DOMAIN GraphOf(2)

---------------------------------------------------------------------------
(* pvlib/pvsystem.py: singlediode.  A number is a symbolic value (an Obj,  *)
(* an input item or the result App of a call); a pandas Series and a numpy *)
(* array are sequences of numbers, the Series on the index its inputs      *)
(* share, the array without index.                                         *)

\* the inputs of singlediode have at most this many rows
MaxRows == 2

Series(vals) == [k |-> "Series", v |-> vals]
ndarray(vals) == [k |-> "ndarray", v |-> vals]
NaN == Obj("nan")

\* row r of the input Series called name
Item(name, r) == [k |-> "item", v |-> <<Obj(name), r>>]

IsArray(x) == x.k \in {"Series", "ndarray"}
At(x, r) == IF IsArray(x) THEN x.v[r] ELSE x

\* an arithmetic expression or elementwise function f on scalars, Series and
\* arrays: row by row, a Series when an operand is a Series
Elementwise(f, operands) ==
    LET arrays == {i \in DOMAIN operands : IsArray(operands[i])}
    IN IF arrays = {} THEN App(f, operands)
       ELSE LET n == Len(operands[CHOOSE i \in arrays : TRUE].v)
                vals == [r \in 1..n |-> App(f, [i \in DOMAIN operands |->
                                                    At(operands[i], r)])]
            IN IF \E i \in arrays : operands[i].k = "Series"
               THEN Series(vals) ELSE ndarray(vals)

\* the rows of pd.DataFrame(params): those of its Series, or the single row
\* of index=[0] when every value is a scalar (ValueError)
DataFrameRows(params) ==
    LET cols == DOMAIN params
        arrays == {c \in cols : IsArray(params[c])}
        n == IF arrays = {} THEN 1 ELSE Len(params[CHOOSE c \in arrays : TRUE].v)
    IN [r \in 1..n |-> [c \in cols |-> At(params[c], r)]]

\* a start of the search at three quarters of i_sc
x0_three_quarters(i_sc) == App(Obj("mul"), <<i_sc, Obj("0.75")>>)

\* data['i_sc']*0.9
x0(i_sc) == App(Obj("mul"), <<i_sc, Obj("0.9")>>)

\* the return codes of scipy.optimize.fmin_tnc: converged, or stopped before
RcConverged == {"LOCALMINIMUM", "XCONVERGED"}
RcStopped == {"MAXFUN", "LSFAIL"}

\* scipy.optimize.fmin_tnc(func, x0, fprime, args=...): (x, nfeval, rc)
fmin_tnc(func, start, fprime, fargs, rc) ==
    Tuple(<<List(<<App(Obj("fmin_tnc.x"), <<func, start, fprime>> \o fargs)>>),
            Obj("nfeval"), Obj(rc)>>)

\* the five diode parameters in the argument order of i_from_v and v_from_i,
\* with x as their fourth argument
SolverArgs(c, x) ==
    <<c.resistance_shunt, c.resistance_series, c.nNsVth, x,
      c.saturation_current, c.photocurrent>>

\* the locals of singlediode before its first statement
NoFrame == [i_sc |-> None, v_oc |-> None, params |-> <<>>, i_mp |-> <<>>,
            rc |-> <<>>, dfout |-> None]

\* singlediode up to the loop: i_sc, v_oc and the params frame
SdSolve ==
    /\ pc = "singlediode"
    /\ LET i_sc == Elementwise(Obj("i_from_v"), SolverArgs(call, Obj("0.01")))
           v_oc == Elementwise(Obj("v_from_i"), SolverArgs(call, Obj("0.0")))
           params == [r_sh |-> call.resistance_shunt,
                      r_s |-> call.resistance_series,
                      nNsVth |-> call.nNsVth,
                      i_0 |-> call.saturation_current,
                      i_l |-> call.photocurrent,
                      i_sc |-> i_sc]
       IN frame' = [frame EXCEPT !.i_sc = i_sc, !.v_oc = v_oc,
                                 !.params = DataFrameRows(params)]
    /\ pc' = "iterrows"
    /\ UNCHANGED <<call, chainVars>>

\* one iteration of `for time, data in params.iterrows()`; the return code of
\* the search is kept beside the iterate although singlediode drops it
SdSearch ==
    /\ pc = "iterrows"
    /\ Len(frame.i_mp) < Len(frame.params)
    /\ LET data == frame.params[Len(frame.i_mp) + 1]
       IN \E rc \in RcConverged \cup RcStopped :
             LET res == fmin_tnc(Obj("_neg_p_from_i"), x0(data.i_sc),
                                 Obj("_neg_dpower_dcurrent"),
                                 <<data.r_sh, data.r_s, data.nNsVth, data.i_0,
                                   data.i_l>>, rc)
             IN frame' = [frame EXCEPT !.i_mp = Append(@, res.v[1].v[1]),
                                       !.rc = Append(@, rc)]
    /\ UNCHANGED <<pc, call, chainVars>>

\* singlediode after the loop: v_mp, p_mp, i_x, i_xx and the returned dfout,
\* a DataFrame on photocurrent.index, or the dict when photocurrent has no
\* index (AttributeError)
SdReturn ==
    /\ pc = "iterrows"
    /\ Len(frame.i_mp) = Len(frame.params)
    /\ LET i_mp == ndarray(frame.i_mp)
           v_oc == frame.v_oc
           v_mp == Elementwise(Obj("v_from_i"), SolverArgs(call, i_mp))
           p_mp == Elementwise(Obj("mul"), <<i_mp, v_mp>>)
           i_x == Elementwise(Obj("i_from_v"),
                      SolverArgs(call, Elementwise(Obj("mul"), <<Obj("0.5"), v_oc>>)))
           i_xx == Elementwise(Obj("i_from_v"),
                       SolverArgs(call, Elementwise(Obj("mul"),
                           <<Obj("0.5"), Elementwise(Obj("add"), <<v_oc, v_mp>>)>>)))
           dfout == [i_sc |-> frame.i_sc, i_mp |-> i_mp, v_oc |-> v_oc,
                     v_mp |-> v_mp, p_mp |-> p_mp, i_x |-> i_x, i_xx |-> i_xx]
       IN frame' = [frame EXCEPT !.dfout =
                       IF call.photocurrent.k = "Series"
                       THEN [k |-> "DataFrame",
                             v |-> [c \in DOMAIN dfout |-> Series(dfout[c].v)]]
                       ELSE [k |-> "dict", v |-> dfout]]
    /\ pc' = "singlediode_done"
    /\ UNCHANGED <<call, chainVars>>

\* no call of mcdask.basic_chain is under way
ChainIdle ==
    /\ weather = {}
    /\ module_parameters = {}
    /\ inverter_parameters = {}
    /\ aoi_model = None
    /\ spectral_model = None
    /\ dc_model = None
    /\ ac_model = None
    /\ losses_model = None
    /\ dsk = <<>>
    /\ order = <<>>
    /\ warned = <<>>
    /\ exc = "none"
    /\ raisedAt = "none"
    /\ inferred = [d \in {"aoi", "spectral", "dc", "ac"} |-> <<>>]
    /\ altitude = None
    /\ pressure = None
    /\ computed = <<>>
    /\ heap = <<>>
    /\ returned = <<>>
    /\ twin = <<>>

DiodeParameters == {"photocurrent", "saturation_current", "resistance_series",
                    "resistance_shunt", "nNsVth"}

\* each diode parameter is a float or a Series; the Series have the same length
SdInit ==
    /\ pc = "singlediode"
    /\ \E n \in 1..MaxRows, series \in SUBSET DiodeParameters :
          call = [name \in DiodeParameters |->
                     IF name \in series
                     THEN Series([r \in 1..n |-> Item(name, r)])
                     ELSE Obj(name)]
    /\ frame = NoFrame
    /\ ChainIdle

SdNext ==
    \/ SdSolve
    \/ SdSearch
    \/ SdReturn

SdSpec == SdInit /\ [][SdNext]_vars

\* singlediode has returned; its output columns, and their row r
SdDone == pc = "singlediode_done"
SdRows == 1..Len(frame.params)
SdOut(col, r) == At(frame.dfout.v[col], r)

\* what a solver call gives on row r of the inputs, x being its fourth argument
OnRow(f, r, x) ==
    App(Obj(f), [i \in 1..6 |-> At(SolverArgs(call, x)[i], r)])

\* the iterate the search returns on row r when started at `start`
SearchOnRow(r, start) ==
    App(Obj("fmin_tnc.x"),
        <<Obj("_neg_p_from_i"), start, Obj("_neg_dpower_dcurrent"),
          At(call.resistance_shunt, r), At(call.resistance_series, r),
          At(call.nNsVth, r), At(call.saturation_current, r),
          At(call.photocurrent, r)>>)

\* C21: on every row, i_sc = i_from_v at V = 0.01, v_oc = v_from_i at I = 0,
\* i_mp = the search started at 0.9*i_sc, v_mp = v_from_i at I = i_mp,
\* p_mp = i_mp*v_mp, i_x = i_from_v at 0.5*v_oc, i_xx = i_from_v at
\* 0.5*(v_oc + v_mp)
C21_SinglediodeComposition ==
    SdDone =>
        \A r \in SdRows :
            LET i_sc == OnRow("i_from_v", r, Obj("0.01"))
                v_oc == OnRow("v_from_i", r, Obj("0.0"))
                i_mp == SearchOnRow(r, App(Obj("mul"), <<i_sc, Obj("0.9")>>))
                v_mp == OnRow("v_from_i", r, i_mp)
            IN /\ SdOut("i_sc", r) = i_sc
               /\ SdOut("v_oc", r) = v_oc
               /\ SdOut("i_mp", r) = i_mp
               /\ SdOut("v_mp", r) = v_mp
               /\ SdOut("p_mp", r) = App(Obj("mul"), <<i_mp, v_mp>>)
               /\ SdOut("i_x", r) =
                      OnRow("i_from_v", r, App(Obj("mul"), <<Obj("0.5"), v_oc>>))
               /\ SdOut("i_xx", r) =
                      OnRow("i_from_v", r,
                            App(Obj("mul"), <<Obj("0.5"),
                                              App(Obj("add"), <<v_oc, v_mp>>)>>))

C21_Witness ==
    /\ SdDone
    /\ Len(frame.params) = 2
    /\ call.photocurrent.k = "Series"
    /\ call.resistance_shunt.k = "obj"
    /\ frame.dfout.k = "DataFrame"
    /\ SdOut("i_sc", 1) # SdOut("i_sc", 2)

\* C22: a row whose search stopped without converging has NaN for i_mp and for
\* what is computed from it, and the other rows have their values
C22_NonConvergedRowIsNaN ==
    SdDone =>
        \A r \in SdRows :
            IF frame.rc[r] \in RcStopped
            THEN /\ SdOut("i_mp", r) = NaN
                 /\ SdOut("v_mp", r) = NaN
                 /\ SdOut("p_mp", r) = NaN
            ELSE SdOut("i_mp", r) # NaN

\* the input items a number was computed from
RECURSIVE ItemsOf(_)
ItemsOf(x) ==
    IF x.k = "item" THEN {x}
    ELSE IF x.k = "app" THEN UNION {ItemsOf(x.v[i]) : i \in DOMAIN x.v}
    ELSE {}

\* C23: when some diode parameter is a Series, every output column is a Series
\* on the inputs' index with one row per input row, and row r of a column is
\* computed from row r of the inputs only
C23_OutputsOnCommonIndex ==
    (SdDone /\ \E name \in DiodeParameters : call[name].k = "Series") =>
        \A col \in DOMAIN frame.dfout.v :
            /\ frame.dfout.v[col].k = "Series"
            /\ Len(frame.dfout.v[col].v) = Len(frame.params)
            /\ \A r \in SdRows :
                   \A x \in ItemsOf(frame.dfout.v[col].v[r]) : x.v[2] = r

---------------------------------------------------------------------------
(* pvlib/pvsystem.py: v_from_i and i_from_v on IEEE-754 doubles.  A double  *)
(* is known by its class; an expression has the set of classes its value   *)
(* can have, overflow to an infinity and underflow to zero included.       *)

FloatClasses == {"nan", "-inf", "neg", "zero", "pos", "inf"}
Infinite == {"-inf", "inf"}

NegC(a) ==
    CASE a = "-inf" -> "inf"
      [] a = "neg" -> "pos"
      [] a = "pos" -> "neg"
      [] a = "inf" -> "-inf"
      [] OTHER -> a

IsNegative(a) == a \in {"-inf", "neg"}
Signed(a, negative) == IF negative THEN NegC(a) ELSE a

AddC(a, b) ==
    IF "nan" \in {a, b} THEN {"nan"}
    ELSE IF a \in Infinite THEN (IF b \in Infinite /\ b # a THEN {"nan"} ELSE {a})
    ELSE IF b \in Infinite THEN {b}
    ELSE IF a = "zero" THEN {b}
    ELSE IF b = "zero" THEN {a}
    ELSE IF a = b THEN {a, Signed("inf", IsNegative(a))}
    ELSE {"neg", "zero", "pos"}

MulC(a, b) ==
    IF "nan" \in {a, b} THEN {"nan"}
    ELSE IF "zero" \in {a, b}
         THEN (IF {a, b} \cap Infinite # {} THEN {"nan"} ELSE {"zero"})
    ELSE LET negative == IsNegative(a) # IsNegative(b)
         IN IF {a, b} \cap Infinite # {} THEN {Signed("inf", negative)}
            ELSE {Signed("pos", negative), Signed("inf", negative), "zero"}

\* numpy's division: x/0 is an infinity of either sign (the zero may be -0.0)
DivC(a, b) ==
    IF "nan" \in {a, b} THEN {"nan"}
    ELSE IF b = "zero" THEN (IF a = "zero" THEN {"nan"} ELSE Infinite)
    ELSE IF b \in Infinite THEN (IF a \in Infinite THEN {"nan"} ELSE {"zero"})
    ELSE IF a = "zero" THEN {"zero"}
    ELSE LET negative == IsNegative(a) # IsNegative(b)
         IN IF a \in Infinite THEN {Signed("inf", negative)}
            ELSE {Signed("pos", negative), Signed("inf", negative), "zero"}

\* np.exp
ExpC(a) ==
    CASE a = "nan" -> {"nan"}
      [] a = "-inf" -> {"zero"}
      [] a = "neg" -> {"pos", "zero"}
      [] a = "zero" -> {"pos"}
      [] a = "pos" -> {"pos", "inf"}
      [] a = "inf" -> {"inf"}

\* the real part of scipy.special.lambertw (principal branch)
LambertwC(a) ==
    CASE a = "nan" -> {"nan"}
      [] a = "-inf" -> {"inf", "nan"}
      [] a = "neg" -> {"neg", "zero", "pos"}
      [] a = "zero" -> {"zero"}
      [] a = "pos" -> {"pos"}
      [] a = "inf" -> {"inf"}

Add(A, B) == UNION {AddC(a, b) : a \in A, b \in B}
Mul(A, B) == UNION {MulC(a, b) : a \in A, b \in B}
Div(A, B) == UNION {DivC(a, b) : a \in A, b \in B}
Neg(A) == {NegC(a) : a \in A}
Sub(A, B) == Add(A, Neg(B))
Exp(A) == UNION {ExpC(a) : a \in A}
lambertw(A) == UNION {LambertwC(a) : a \in A}

\* v_from_i: Eqn. 3 of Jain and Kapoor
v_from_i(resistance_shunt, resistance_series, nNsVth, current, saturation_current, photocurrent) ==
    LET Rsh == resistance_shunt
        Rs == resistance_series
        I0 == saturation_current
        IL == photocurrent
        I == current
        argW == Mul(Div(Mul(I0, Rsh), nNsVth),
                    Exp(Div(Mul(Rsh, Add(Add(Neg(I), IL), I0)), nNsVth)))
        lambertwterm == lambertw(argW)
    IN Add(Sub(Add(Mul(Neg(I), Add(Rs, Rsh)), Mul(IL, Rsh)),
               Mul(nNsVth, lambertwterm)),
           Mul(I0, Rsh))

\* i_from_v: Eqn. 4 of Jain and Kapoor
i_from_v(resistance_shunt, resistance_series, nNsVth, voltage, saturation_current, photocurrent) ==
    LET Rsh == resistance_shunt
        Rs == resistance_series
        I0 == saturation_current
        IL == photocurrent
        V == voltage
        argW == Div(Mul(Mul(Mul(Rs, I0), Rsh),
                        Exp(Div(Mul(Rsh, Add(Mul(Rs, Add(IL, I0)), V)),
                                Mul(nNsVth, Add(Rs, Rsh))))),
                    Mul(nNsVth, Add(Rs, Rsh)))
        lambertwterm == lambertw(argW)
    IN Add(Sub(Div(Neg(V), Add(Rs, Rsh)),
               Mul(Div(nNsVth, Rs), lambertwterm)),
           Div(Mul(Rsh, Add(IL, I0)), Add(Rs, Rsh)))

\* `nNsVth/Rs` on two Python floats raises instead of giving an infinity
float_division_raises(kind, divisor) == kind = "float" /\ "zero" \in divisor

\* V = v_from_i(Rsh, Rs, nNsVth, I, I0, IL)
VFromI ==
    /\ pc = "v_from_i"
    /\ frame' = [frame EXCEPT !.V =
                    Return(v_from_i(call.resistance_shunt, call.resistance_series,
                                    call.nNsVth, call.current,
                                    call.saturation_current, call.photocurrent))]
    /\ pc' = "i_from_v"
    /\ UNCHANGED <<call, chainVars>>

\* I = i_from_v(Rsh, Rs, nNsVth, V, I0, IL)
IFromV ==
    /\ pc = "i_from_v"
    /\ frame' = [frame EXCEPT !.I =
                    IF float_division_raises(call.kind, call.resistance_series)
                    THEN Raise("ZeroDivisionError", "float division by zero")
                    ELSE Return(i_from_v(call.resistance_shunt,
                                         call.resistance_series, call.nNsVth,
                                         frame.V.val, call.saturation_current,
                                         call.photocurrent))]
    /\ pc' = "round_trip_done"
    /\ UNCHANGED <<call, chainVars>>

\* diode parameters as Python floats or as Series; a positive shunt resistance
\* and nNsVth, the other parameters zero or positive, a current of any sign
SolverInit ==
    /\ pc = "v_from_i"
    /\ call \in [kind : {"float", "Series"},
                 resistance_shunt : {{"pos"}},
                 resistance_series : {{"zero"}, {"pos"}},
                 nNsVth : {{"pos"}},
                 saturation_current : {{"zero"}, {"pos"}},
                 photocurrent : {{"zero"}, {"pos"}},
                 current : {{"neg"}, {"zero"}, {"pos"}}]
    /\ frame = [V |-> None, I |-> None]
    /\ ChainIdle

SolverNext ==
    \/ VFromI
    \/ IFromV

SolverSpec == SolverInit /\ [][SolverNext]_vars

\* C24: i_from_v(v_from_i(I)) equals I within tolerance, as far as the classes
\* tell: the round trip returns a value, and this value can be of the class of I
C24_RoundTrip ==
    pc = "round_trip_done" =>
        /\ frame.I.exc = "none"
        /\ call.current \subseteq frame.I.val

---------------------------------------------------------------------------
(* pvlib/pvsystem.py: snlinverter, on exact rational numbers [n, d]        *)

Abs(x) == IF x < 0 THEN -x ELSE x

RECURSIVE GCD(_, _)
GCD(a, b) == IF b = 0 THEN a ELSE GCD(b, a % b)

\* the rational n/d in lowest terms, d > 0
Q(n, d) ==
    LET g == GCD(Abs(n), Abs(d))
        sign == IF d < 0 THEN -1 ELSE 1
    IN [n |-> (sign * n) \div g, d |-> (sign * d) \div g]

QAdd(a, b) == Q(a.n * b.d + b.n * a.d, a.d * b.d)
QSub(a, b) == Q(a.n * b.d - b.n * a.d, a.d * b.d)
QMul(a, b) == Q(a.n * b.n, a.d * b.d)
QDiv(a, b) == Q(a.n * b.d, a.d * b.n)
QLess(a, b) == a.n * b.d < b.n * a.d
QAbs(a) == [n |-> Abs(a.n), d |-> a.d]
QInt(i) == [n |-> i, d |-> 1]

\* the modelled AC power of one row
snl_ac_power(inverter, v_dc, p_dc) ==
    LET Paco == inverter.Paco
        dv == QSub(v_dc, inverter.Vdco)
        A == QMul(inverter.Pdco, QAdd(QInt(1), QMul(inverter.C1, dv)))
        B == QMul(inverter.Pso, QAdd(QInt(1), QMul(inverter.C2, dv)))
        C == QMul(inverter.C0, QAdd(QInt(1), QMul(inverter.C3, dv)))
        AB == QSub(A, B)
        pB == QSub(p_dc, B)
    IN QAdd(QMul(QSub(QDiv(Paco, AB), QMul(C, AB)), pB), QMul(C, QMul(pB, pB)))

\* p_dc = pd.Series(p_dc); ac_power = ...
SnlModel ==
    /\ pc = "snlinverter"
    /\ LET p_dc == IF call.p_dc.k = "Series" THEN call.p_dc.v ELSE <<call.p_dc.v>>
       IN frame' = [frame EXCEPT
                       !.p_dc = p_dc,
                       !.ac_power = [r \in DOMAIN p_dc |->
                                        snl_ac_power(call.inverter, call.v_dc, p_dc[r])]]
    /\ pc' = "clip"
    /\ UNCHANGED <<call, chainVars>>

\* ac_power[ac_power > Paco] = Paco
SnlClip ==
    /\ pc = "clip"
    /\ frame' = [frame EXCEPT !.ac_power =
                    [r \in DOMAIN @ |-> IF QLess(call.inverter.Paco, @[r])
                                        THEN call.inverter.Paco ELSE @[r]]]
    /\ pc' = "night"
    /\ UNCHANGED <<call, chainVars>>

\* ac_power[p_dc < Pso] = - 1.0 * abs(Pnt)
SnlNight ==
    /\ pc = "night"
    /\ frame' = [frame EXCEPT !.ac_power =
                    [r \in DOMAIN @ |-> IF QLess(frame.p_dc[r], call.inverter.Pso)
                                        THEN QMul(QInt(-1), QAbs(call.inverter.Pnt))
                                        ELSE @[r]]]
    /\ pc' = "unwrap"
    /\ UNCHANGED <<call, chainVars>>

\* if len(ac_power) == 1: ac_power = ac_power.ix[0]; return ac_power
SnlReturn ==
    /\ pc = "unwrap"
    /\ frame' = [frame EXCEPT !.ret =
                    IF Len(frame.ac_power) = 1
                    THEN [k |-> "float", v |-> frame.ac_power[1]]
                    ELSE Series(frame.ac_power)]
    /\ pc' = "snlinverter_done"
    /\ UNCHANGED <<call, chainVars>>

\* inverters (watts, volts) with and without voltage dependence and curvature
SnlInverters ==
    [Paco : {QInt(100)}, Pdco : {QInt(110)}, Vdco : {QInt(10)},
     Pso : {QInt(0), QInt(10)}, C0 : {QInt(0), Q(-1, 1000)},
     C1 : {QInt(0), Q(1, 10)}, C2 : {QInt(0), Q(1, 10)}, C3 : {QInt(0)},
     Pnt : {QInt(1)}]

SnlPowers == {QInt(0), QInt(5), QInt(10), QInt(50), QInt(120), QInt(200)}

SnlInit ==
    /\ pc = "snlinverter"
    /\ \E inverter \in SnlInverters, v_dc \in {QInt(10), QInt(15)} :
          \E p_dc \in {[k |-> "float", v |-> p] : p \in SnlPowers}
                        \cup {Series(rows) : rows \in
                                UNION {[1..n -> SnlPowers] : n \in 1..MaxRows}} :
             call = [inverter |-> inverter, v_dc |-> v_dc, p_dc |-> p_dc]
    /\ frame = [p_dc |-> <<>>, ac_power |-> <<>>, ret |-> None]
    /\ ChainIdle

SnlNext ==
    \/ SnlModel
    \/ SnlClip
    \/ SnlNight
    \/ SnlReturn

SnlSpec == SnlInit /\ [][SnlNext]_vars

\* row r of what snlinverter returned
SnlOut(r) == IF frame.ret.k = "Series" THEN frame.ret.v[r] ELSE frame.ret.v

\* C25: a row whose modelled ac_power is greater than Paco is returned as Paco,
\* a row whose modelled ac_power is less than Pso as -abs(Pnt), and no
\* returned value is greater than Paco
C25_ClipAndNightTare ==
    pc = "snlinverter_done" =>
        \A r \in DOMAIN frame.p_dc :
            LET modelled == snl_ac_power(call.inverter, call.v_dc, frame.p_dc[r])
            IN /\ QLess(call.inverter.Paco, modelled) => SnlOut(r) = call.inverter.Paco
               /\ QLess(modelled, call.inverter.Pso) =>
                      SnlOut(r) = QMul(QInt(-1), QAbs(call.inverter.Pnt))
               /\ ~QLess(call.inverter.Paco, SnlOut(r))

---------------------------------------------------------------------------
(* pvlib/pvsystem.py: scale_voltage_current_power.  DataFrames are objects: *)
(* frame.objects holds them by reference, a row of a DataFrame is a record *)
(* of integers.                                                            *)

\* a variant that hands back the caller's object
DataFrame_copy_view(objects, ref) == [objects |-> objects, ref |-> ref]

\* data.copy(): a new object with the same columns
DataFrame_copy(objects, ref) ==
    [objects |-> Append(objects, objects[ref]), ref |-> Len(objects) + 1]

voltages == {"v_mp", "v_oc"}
currents == {"i_mp", "i_x", "i_xx", "i_sc"}

\* data[columns] *= factor, on the object the local `data` refers to
ScaleColumns(objects, ref, columns, factor) ==
    [objects EXCEPT ![ref] =
        [c \in DOMAIN @ |-> IF c \in columns THEN @[c] * factor ELSE @[c]]]

\* data = data.copy()
ScaleCopy ==
    /\ pc = "scale_voltage_current_power"
    /\ LET copy == DataFrame_copy(frame.objects, call.data)
       IN frame' = [frame EXCEPT !.objects = copy.objects, !.data = copy.ref]
    /\ pc' = "voltages"
    /\ UNCHANGED <<call, chainVars>>

\* data[voltages] *= voltage
ScaleVoltages ==
    /\ pc = "voltages"
    /\ frame' = [frame EXCEPT !.objects =
                    ScaleColumns(@, frame.data, voltages, call.voltage)]
    /\ pc' = "currents"
    /\ UNCHANGED <<call, chainVars>>

\* data[currents] *= current
ScaleCurrents ==
    /\ pc = "currents"
    /\ frame' = [frame EXCEPT !.objects =
                    ScaleColumns(@, frame.data, currents, call.current)]
    /\ pc' = "p_mp"
    /\ UNCHANGED <<call, chainVars>>

\* data['p_mp'] *= voltage * current; return data
ScalePower ==
    /\ pc = "p_mp"
    /\ frame' = [frame EXCEPT
                    !.objects = ScaleColumns(@, frame.data, {"p_mp"},
                                             call.voltage * call.current),
                    !.ret = frame.data]
    /\ pc' = "scale_done"
    /\ UNCHANGED <<call, chainVars>>

\* rows as singlediode and sapm return them, and rows whose p_mp is something else
ScaleRows ==
    {[v_mp |-> v, v_oc |-> 8, i_mp |-> i, i_x |-> 3, i_xx |-> 2, i_sc |-> 4,
      p_mp |-> p, effective_irradiance |-> 900] :
        v \in {0, 5, 7}, i \in {0, 2, 3}, p \in {0, 1, 10, 15, 21}}

\* call.data is the caller's reference, call.was the row it held at the call
ScaleInit ==
    /\ pc = "scale_voltage_current_power"
    /\ \E row \in ScaleRows, voltage \in {1, 2, 3}, current \in {1, 2} :
          /\ call = [data |-> 1, was |-> row, voltage |-> voltage,
                     current |-> current]
          /\ frame = [objects |-> <<row>>, data |-> 1, ret |-> 0]
    /\ ChainIdle

ScaleNext ==
    \/ ScaleCopy
    \/ ScaleVoltages
    \/ ScaleCurrents
    \/ ScalePower

ScaleSpec == ScaleInit /\ [][ScaleNext]_vars

ScaleIn == call.was
ScaleOut == frame.objects[frame.ret]

\* C26: scale_voltage_current_power returns another object than its input and
\* leaves the input as it was; in the result v_mp and v_oc are multiplied by
\* voltage, the four currents by current, p_mp by voltage*current and no other
\* column is changed, so p_mp = i_mp*v_mp carries over from input to output and
\* scaling by (1, 1) gives data equal to the input
C26_ScaledCopy ==
    pc = "scale_done" =>
        /\ frame.ret # call.data
        /\ frame.objects[call.data] = ScaleIn
        /\ \A c \in DOMAIN ScaleIn :
               ScaleOut[c] = ScaleIn[c] * ( IF c \in voltages THEN call.voltage
                                             ELSE IF c \in currents THEN call.current
                                             ELSE IF c = "p_mp"
                                                  THEN call.voltage * call.current
                                             ELSE 1 )
        /\ ScaleIn.p_mp = ScaleIn.i_mp * ScaleIn.v_mp
               => ScaleOut.p_mp = ScaleOut.i_mp * ScaleOut.v_mp
        /\ (call.voltage = 1 /\ call.current = 1) => ScaleOut = ScaleIn

C26_Witness ==
    /\ pc = "scale_done"
    /\ call.voltage = 3
    /\ call.current = 2
    /\ ScaleIn.p_mp = 21
    /\ ScaleIn.i_mp = 3
    /\ ScaleOut.p_mp = 126
    /\ ScaleOut.v_mp = 21

---------------------------------------------------------------------------
(* mcdask_delayed.py: the inference functions of the delayed builder       *)

\* a variant that tests the single-diode keys before the SAPM keys
delayed_infer_dc_model_singlediode_first(params) ==
    IF {"a_ref", "I_L_ref", "I_o_ref", "R_sh_ref", "R_s"} \subseteq params
    THEN Return(Str("singlediode"))
    ELSE IF {"A0", "A1", "C7"} \subseteq params THEN Return(Str("sapm"))
    ELSE IF {"pdc0", "gamma_pdc"} \subseteq params THEN Return(Str("pvwatts"))
    ELSE Raise("ValueError", "could not infer DC model from module_parameters")

delayed_infer_dc_model(params) ==
    IF {"A0", "A1", "C7"} \subseteq params THEN Return(Str("sapm"))
    ELSE IF {"a_ref", "I_L_ref", "I_o_ref", "R_sh_ref", "R_s"} \subseteq params
    THEN Return(Str("singlediode"))
    ELSE IF {"pdc0", "gamma_pdc"} \subseteq params THEN Return(Str("pvwatts"))
    ELSE Raise("ValueError", "could not infer DC model from module_parameters")

delayed_infer_ac_model(module_params, inverter_params) ==
    IF {"C0", "C1", "C2"} \subseteq inverter_params THEN Return(Str("snlinverter"))
    ELSE IF {"ADRCoefficients"} \subseteq inverter_params
    THEN Return(Str("adrinverter"))
    ELSE IF {"pdc0"} \subseteq module_params THEN Return(Str("pvwatts"))
    ELSE Raise("ValueError",
               "could not infer AC model from module_parameters or inverter_parameters")

\* both revisions' infer_dc_model on the same module parameters
RevisionsDc ==
    /\ pc = "infer_dc_model"
    /\ frame' = Append(frame,
                       [function |-> "infer_dc_model",
                        mcdask |-> Outcome(infer_dc_model(call.module_parameters)),
                        mcdask_delayed |->
                            Outcome(delayed_infer_dc_model(call.module_parameters))])
    /\ pc' = "infer_ac_model"
    /\ UNCHANGED <<call, chainVars>>

\* both revisions' infer_ac_model on the same module and inverter parameters
RevisionsAc ==
    /\ pc = "infer_ac_model"
    /\ frame' = Append(frame,
                       [function |-> "infer_ac_model",
                        mcdask |-> Outcome(infer_ac_model(call.module_parameters,
                                                          call.inverter_parameters)),
                        mcdask_delayed |->
                            Outcome(delayed_infer_ac_model(call.module_parameters,
                                                           call.inverter_parameters))])
    /\ pc' = "inferred"
    /\ UNCHANGED <<call, chainVars>>

\* key sets around the rules of the DC and the AC domain
RevisionsModuleKeyChunks == {
    {"A0", "A1"}, {"C7"},
    {"a_ref", "I_L_ref", "I_o_ref", "R_sh_ref"}, {"R_s"},
    {"pdc0"}, {"gamma_pdc"}, {"b"} }

RevisionsInit ==
    /\ pc = "infer_dc_model"
    /\ call \in [module_parameters : {UNION cs : cs \in SUBSET RevisionsModuleKeyChunks},
                  inverter_parameters : {UNION cs : cs \in SUBSET InverterKeyChunks}]
    /\ frame = <<>>
    /\ ChainIdle

RevisionsNext ==
    \/ RevisionsDc
    \/ RevisionsAc

RevisionsSpec == RevisionsInit /\ [][RevisionsNext]_vars

\* C30: on every module key set and inverter key set, infer_dc_model of mcdask
\* and of mcdask_delayed have the same outcome, and so have the two
\* infer_ac_model: the same variant name, or failure in both
C30_RevisionsInferAlike ==
    \A i \in DOMAIN frame : frame[i].mcdask = frame[i].mcdask_delayed

C30_Witness ==
    /\ pc = "inferred"
    /\ frame[1].function = "infer_dc_model"
    /\ frame[1].mcdask_delayed = "singlediode"
    /\ frame[2].function = "infer_ac_model"
    /\ frame[2].mcdask_delayed = "fail"
    /\ {"A0", "A1"} \subseteq call.module_parameters

---------------------------------------------------------------------------
(* mcdask_delayed.py: basic_chain, which builds dask.delayed objects and    *)
(* returns the one for the AC power                                         *)

\* f(*args) wrapped by dask.delayed, and obj[key] on a delayed object
Delayed(f, args) == [k |-> "delayed", v |-> <<f>> \o args]
DelayedItem(obj, key) == [k |-> "getitem", v |-> <<obj, Str(key)>>]

\* a local name that no statement has bound yet
Unbound == [k |-> "unbound", v |-> ""]

\* the locals of basic_chain on entry
DelayedLocals ==
    [temps |-> Unbound, effective_irradiance |-> Unbound, losses |-> Unbound,
     dc_model |-> call.dc_model, ac_model |-> call.ac_model,
     dc |-> Unbound, ac |-> Unbound, warned |-> <<>>, exc |-> "none", ret |-> Unbound]

\* the task graph up to effective_irradiance and losses; of the nodes before
\* poa_irrad only the two weather look-ups are kept, the DC and AC branches
\* read none of the others
DelayedGraph ==
    /\ pc = "delayed_basic_chain"
    /\ LET poa_irrad == Delayed(Obj("pvlib.irradiance.total_irrad"), <<>>)
           irrad_global == DelayedItem(poa_irrad, "poa_global")
           wind == Delayed(Obj("var_or_default"),
                           <<Obj("weather"), Str("wind_speed"), Obj("0")>>)
           air == Delayed(Obj("var_or_default"),
                          <<Obj("weather"), Str("temp_air"), Obj("25")>>)
       IN frame' = [frame EXCEPT
                       !.temps = Delayed(pvsystem_attr("sapm_celltemp").val,
                                         <<irrad_global, wind, air>>),
                       !.effective_irradiance = irrad_global,
                       !.losses = Obj("1")]
    /\ pc' = "delayed_infer_dc"
    /\ UNCHANGED <<call, chainVars>>

\* if dc_model is None: try: dc_model = infer_dc_model(module_parameters)
\* except ValueError as e: warnings.warn(e)
DelayedInferDc ==
    /\ pc = "delayed_infer_dc"
    /\ LET r == delayed_infer_dc_model(call.module_parameters) IN
       IF ~isNone(frame.dc_model) THEN frame' = frame
       ELSE IF r.exc = "none" THEN frame' = [frame EXCEPT !.dc_model = r.val]
       ELSE frame' = [frame EXCEPT !.warned = Append(@, r.msg)]
    /\ pc' = "delayed_dc"
    /\ UNCHANGED <<call, chainVars>>

\* the outcome of the DC branch for a model name
delayed_dc(model) ==
    IF model = "pvwatts" THEN
        IF pvsystem_attr("pvwatts_dc").exc # "none" THEN pvsystem_attr("pvwatts_dc")
        ELSE IF GetItem(call.module_parameters, "pdc0").exc # "none"
        THEN GetItem(call.module_parameters, "pdc0")
        ELSE IF GetItem(call.module_parameters, "gamma_pdc").exc # "none"
        THEN GetItem(call.module_parameters, "gamma_pdc")
        ELSE Return(Delayed(pvsystem_attr("pvwatts_dc").val,
                            <<frame.effective_irradiance,
                              DelayedItem(frame.temps, "temp_cell"),
                              GetItem(call.module_parameters, "pdc0").val,
                              GetItem(call.module_parameters, "gamma_pdc").val>>))
    \* dsk['dc'] = ...: the value is built, then the name `dsk` is not defined
    ELSE IF model = "sapm" THEN Raise("NameError", "name 'dsk' is not defined")
    ELSE Raise("ValueError", "not a valid DC power model")

\* if dc_model is None: warn / elif isinstance(dc_model, str): ... / else
DelayedDc ==
    /\ pc = "delayed_dc"
    /\ LET m == frame.dc_model
           r == delayed_dc(Lower(m.v))
       IN IF isNone(m)
          THEN /\ frame' = [frame EXCEPT !.warned = Append(@, "no dc model registered")]
               /\ pc' = "delayed_infer_ac"
          ELSE IF ~isStr(m)
          THEN /\ frame' = [frame EXCEPT !.dc = m]
               /\ pc' = "delayed_infer_ac"
          ELSE IF r.exc = "none"
          THEN /\ frame' = [frame EXCEPT !.dc = r.val]
               /\ pc' = "delayed_infer_ac"
          ELSE /\ frame' = [frame EXCEPT !.exc = r.exc]
               /\ pc' = "delayed_raised"
    /\ UNCHANGED <<call, chainVars>>

\* if ac_model is None: try: ac_model = infer_ac_model(...)
\* except ValueError as e: warnings.warn(e)
DelayedInferAc ==
    /\ pc = "delayed_infer_ac"
    /\ LET r == delayed_infer_ac_model(call.module_parameters, call.inverter_parameters)
       IN IF ~isNone(frame.ac_model) THEN frame' = frame
          ELSE IF r.exc = "none" THEN frame' = [frame EXCEPT !.ac_model = r.val]
          ELSE frame' = [frame EXCEPT !.warned = Append(@, r.msg)]
    /\ pc' = "delayed_ac"
    /\ UNCHANGED <<call, chainVars>>

\* reading the local `dc`
delayed_read_dc ==
    IF frame.dc = Unbound
    THEN Raise("UnboundLocalError", "local variable 'dc' referenced before assignment")
    ELSE Return(frame.dc)

\* the outcome of the AC branch for a model name
delayed_ac(model) ==
    IF model = "pvwatts" THEN
        IF pvsystem_attr("pvwatts_ac").exc # "none" THEN pvsystem_attr("pvwatts_ac")
        ELSE IF delayed_read_dc.exc # "none" THEN delayed_read_dc
        ELSE IF GetItem(call.module_parameters, "pdc0").exc # "none"
        THEN GetItem(call.module_parameters, "pdc0")
        ELSE Return(Delayed(pvsystem_attr("pvwatts_ac").val,
                            <<frame.dc, GetItem(call.module_parameters, "pdc0").val>>))
    ELSE IF model = "snlinverter" THEN
        IF pvsystem_attr("snlinverter").exc # "none" THEN pvsystem_attr("snlinverter")
        ELSE IF delayed_read_dc.exc # "none" THEN delayed_read_dc
        ELSE Return(Delayed(pvsystem_attr("snlinverter").val,
                            <<DelayedItem(frame.dc, "v_mp"),
                              DelayedItem(frame.dc, "p_mp")>>))
    ELSE Raise("ValueError", "not a valid AC power model")

\* if ac_model is None: warn;  if isinstance(ac_model, str): ... else: ac = ac_model
DelayedAc ==
    /\ pc = "delayed_ac"
    /\ LET m == frame.ac_model
           r == delayed_ac(Lower(m.v))
           w == IF isNone(m) THEN Append(frame.warned, "no ac model registered")
                ELSE frame.warned
       IN IF ~isStr(m)
          THEN /\ frame' = [frame EXCEPT !.ac = m, !.warned = w]
               /\ pc' = "delayed_return"
          ELSE IF r.exc = "none"
          THEN /\ frame' = [frame EXCEPT !.ac = r.val]
               /\ pc' = "delayed_return"
          ELSE /\ frame' = [frame EXCEPT !.exc = r.exc]
               /\ pc' = "delayed_raised"
    /\ UNCHANGED <<call, chainVars>>

\* return ac
DelayedReturn ==
    /\ pc = "delayed_return"
    /\ frame' = [frame EXCEPT !.ret = frame.ac]
    /\ pc' = "delayed_returned"
    /\ UNCHANGED <<call, chainVars>>

\* values a caller may pass for dc_model and ac_model instead of a name
DelayedUserDc == Delayed(Obj("user_dc"), <<>>)
DelayedUserAc == Obj("0.95")

DelayedModuleKeySets == {
    {},
    {"pdc0"},
    {"pdc0", "gamma_pdc"},
    {"gamma_pdc", "b"},
    {"A0", "A1", "C7", "pdc0"},
    {"a_ref", "I_L_ref", "I_o_ref", "R_sh_ref", "R_s"} }

DelayedInit ==
    /\ pc = "delayed_basic_chain"
    /\ call \in [module_parameters : DelayedModuleKeySets,
                  inverter_parameters : InverterKeySets,
                  dc_model : {None, DelayedUserDc}
                             \cup {Str(n) : n \in {"pvwatts", "PVWatts", "sapm", "bogus"}},
                  ac_model : {None, DelayedUserAc}
                             \cup {Str(n) : n \in {"pvwatts", "snlinverter", "bogus"}}]
    /\ frame = DelayedLocals
    /\ ChainIdle

DelayedNext ==
    \/ DelayedGraph
    \/ DelayedInferDc
    \/ DelayedDc
    \/ DelayedInferAc
    \/ DelayedAc
    \/ DelayedReturn

DelayedSpec == DelayedInit /\ [][DelayedNext]_vars

\* dc_model was None and infer_dc_model raised its ValueError
DelayedDcInferenceFailed ==
    /\ isNone(call.dc_model)
    /\ delayed_infer_dc_model(call.module_parameters).exc = "ValueError"

\* how the AC stage of this call comes out: a literal override, a named
\* override, failed inference, or the inferred name
DelayedAcOutcome ==
    IF ~isNone(call.ac_model)
    THEN IF isStr(call.ac_model) THEN "named" ELSE "literal"
    ELSE Outcome(delayed_infer_ac_model(call.module_parameters,
                                        call.inverter_parameters))

\* C29: when dc_model is None and DC inference fails, the delayed basic_chain
\* warns that no dc model is registered and never raises, whether the AC model
\* is inferred as pvwatts or snlinverter, fails to be inferred, or is a literal
C29_DelayedDegradesGracefully ==
    (DelayedDcInferenceFailed
       /\ DelayedAcOutcome \in {"pvwatts", "snlinverter", "fail", "literal"}) =>
        /\ pc # "delayed_raised"
        /\ pc \in {"delayed_infer_ac", "delayed_ac", "delayed_return",
                    "delayed_returned"} =>
               \E i \in DOMAIN frame.warned : frame.warned[i] = "no dc model registered"

====
